---------------------------- MODULE Spec2Model ----------------------------
(***************************************************************************)
(* KPI scoring and weekly aggregation engine of the ads-monitoring         *)
(* dashboard: Tue-Mon week bucketing, the weekly agent / team aggregators, *)
(* the date-range KPI calculation and the weighted totals.                 *)
(*                                                                         *)
(* Conventions.  Money is kept in integer cents.  A calendar date is the   *)
(* number of days since Monday 2024-01-01 (day 0).  A derived metric is an *)
(* exact rational [n, d] in lowest terms (Python floats are modelled by    *)
(* the real numbers they approximate); DivError marks a division by zero.  *)
(***************************************************************************)
EXTENDS Integers, Sequences, FiniteSets, TLC

VARIABLES
    page,               \* the page (caller) of this pass
    pc,                 \* "start" before the page's function ran, "done" after
    date,               \* the argument of get_tue_mon_week
    week_info,          \* its result (iso_year, iso_week)
    daily,              \* daily_df of the agent pages: a sequence of rows
    team_daily,         \* daily_df of the team page: a sequence of channel rows
    channel_team_map,   \* channel -> team mapping handed to build_weekly_team_df
    weekly,             \* result of build_weekly_agent_df
    weekly_team,        \* result of build_weekly_team_df
    kpi_args,           \* (agent_name, date_from, date_to) of calculate_kpi_from_daily
    scores,             \* result of calculate_kpi_from_daily
    agent_scores,       \* SpecTotal: the per-KPI auto scores of one agent
    manual_scores,      \* SpecTotal: st.session_state[..._manual_scores] of that agent
    totals,             \* SpecTotal: auto / manual / grand totals of the render pass
    overall_df,         \* pages/18: the per-channel rows of the Team Channel sheet
    team_actual,        \* pages/25, 29: rows (team, channel_source) of PER TEAM ACTUAL
    team_agg,           \* pages/18: the per-team aggregate frame
    delta_args,         \* arrow_delta's arguments (curr, prev, higher_is_better)
    delta,              \* arrow_delta's result
    selection,          \* pages/28: the selected agent and week index
    wow,                \* pages/28: the baselines of the week-over-week comparisons
    store,              \* the loader's cached Team Channel data, shared by passes
    pass_df,            \* pages/29: df, the working frame of the pass
    widgets,            \* pages/24: the values the manual-score select boxes hold
    view,               \* pages/24: the selected agent, or "All Agents"
    last_report,        \* realtime_reporter: the content of LAST_REPORT_DATA_FILE
    report_run,         \* realtime_reporter: what the last run computed and returned
    no_change_alert     \* realtime_reporter: config.NO_CHANGE_ALERT

vars == <<page, pc, date, week_info, daily, team_daily, channel_team_map, weekly,
          weekly_team, kpi_args, scores, agent_scores, manual_scores, totals,
          overall_df, team_actual, team_agg, delta_args, delta, selection, wow,
          store, pass_df, widgets, view, last_report, report_run,
          no_change_alert>>

\* The state of the team-channel pages and of the week-over-week comparison.
teamVars == <<overall_df, team_actual, team_agg>>

wowVars == <<delta_args, delta, selection, wow>>

\* The state of the step-by-step passes.
kpiPageVars == <<widgets, view>>

\* The real-time reporter: its saved file, its last run, its configuration.
reporterVars == <<last_report, report_run, no_change_alert>>

restVars == <<store, pass_df, kpiPageVars, reporterVars>>

\* A function's outcome: the rows it returned, or the exception it raised.
Returned(rows) == [error |-> "", rows |-> rows]

Raised(e) == [error |-> e, rows |-> <<>>]

-----------------------------------------------------------------------------
(* Exact rational arithmetic standing for Python float arithmetic.         *)

RECURSIVE GCD(_, _)
GCD(a, b) == IF b = 0 THEN a ELSE GCD(b, a % b)

Abs(x) == IF x < 0 THEN -x ELSE x

\* n / d in lowest terms, d > 0.
Rat(n, d) ==
    LET g == GCD(Abs(n), Abs(d))
        s == IF d < 0 THEN -1 ELSE 1
    IN  [n |-> s * (n \div g), d |-> s * (d \div g)]

Zero == [n |-> 0, d |-> 1]

DivError == [n |-> 0, d |-> 0]

\* Python's a / b: ZeroDivisionError when b = 0.
RatDiv(a, b) == IF b.n = 0 \/ a.d = 0 \/ b.d = 0 THEN DivError
                ELSE Rat(a.n * b.d, a.d * b.n)

RatMul(a, b) == Rat(a.n * b.n, a.d * b.d)

RatAdd(a, b) == Rat(a.n * b.d + b.n * a.d, a.d * b.d)

RatInt(k) == [n |-> k, d |-> 1]

RatLeq(a, b) == a.n * b.d <= b.n * a.d

RatLt(a, b) == a.n * b.d < b.n * a.d

RatGt(a, b) == RatLt(b, a)

RatGeq(a, b) == RatLeq(b, a)

-----------------------------------------------------------------------------
(* Calendar: datetime.date arithmetic on day numbers.                      *)

IsLeap(y) == (y % 4 = 0 /\ y % 100 # 0) \/ y % 400 = 0

YearLen(y) == IF IsLeap(y) THEN 366 ELSE 365

\* Day number of January 1st of year y (y >= 2024).
RECURSIVE YearStart(_)
YearStart(y) == IF y <= 2024 THEN 0 ELSE YearStart(y - 1) + YearLen(y - 1)

\* date.year
RECURSIVE YearFrom(_, _)
YearFrom(d, y) == IF d < YearStart(y + 1) THEN y ELSE YearFrom(d, y + 1)

YearOf(d) == YearFrom(d, 2024)

\* date.weekday(): Monday = 0 ... Sunday = 6 (day 0 is a Monday).
Weekday(d) == d % 7

\* The Monday that starts ISO week 1 of year y.
IsoWeek1Monday(y) ==
    LET firstday == YearStart(y)
        firstweekday == Weekday(firstday)
        week1monday == firstday - firstweekday
    IN  IF firstweekday > 3 THEN week1monday + 7 ELSE week1monday

\* date.isocalendar()[0], date.isocalendar()[1]
IsoCalendar(d) ==
    LET year == YearOf(d)
        week == (d - IsoWeek1Monday(year)) \div 7
    IN  IF d < IsoWeek1Monday(year)
        THEN <<year - 1, ((d - IsoWeek1Monday(year - 1)) \div 7) + 1>>
        ELSE IF week >= 52 /\ d >= IsoWeek1Monday(year + 1)
             THEN <<year + 1, 1>>
             ELSE <<year, week + 1>>

\* A plausible slip: weeks that start on Monday (the ISO default).
get_tue_mon_week_monday(d) == IsoCalendar(d - (Weekday(d) % 7))

\* get_tue_mon_week(date): the ISO (year, week) of the Tuesday on or before it.
get_tue_mon_week(d) == IsoCalendar(d - ((Weekday(d) - 1) % 7))

-----------------------------------------------------------------------------
(* Strings.  A week_key "YYYY-Www" is the sequence of its character codes, *)
(* so that sorting week keys is the string comparison Python performs.     *)
(* Entity names are compared through their position in NameOrder.          *)

Digit(k) == 48 + k

\* A slip: the week number without its zero padding.
WeekKey_unpadded(info) ==
    LET y == info[1]
        w == info[2]
    IN  <<Digit(y \div 1000), Digit((y \div 100) % 10), Digit((y \div 10) % 10),
          Digit(y % 10), 45, 87>>
        \o (IF w < 10 THEN <<Digit(w)>> ELSE <<Digit(w \div 10), Digit(w % 10)>>)

\* f"{x[0]}-W{x[1]:02d}"
WeekKey(info) ==
    LET y == info[1]
        w == info[2]
    IN  <<Digit(y \div 1000), Digit((y \div 100) % 10), Digit((y \div 10) % 10),
          Digit(y % 10), 45, 87>>
        \o (IF w < 10 THEN <<Digit(0), Digit(w)>>
            ELSE <<Digit(w \div 10), Digit(w % 10)>>)

\* Python's str < str on two character-code sequences.
RECURSIVE StrLess(_, _)
StrLess(s, t) ==
    IF t = <<>> THEN FALSE
    ELSE IF s = <<>> THEN TRUE
    ELSE IF Head(s) # Head(t) THEN Head(s) < Head(t)
    ELSE StrLess(Tail(s), Tail(t))

\* The entity names of the model in Python's string order.
NameOrder == <<"All", "Team A", "Team B", "X", "Y">>

NameRank(s) == CHOOSE i \in 1..Len(NameOrder) : NameOrder[i] = s

\* (entity, week_key) < (entity, week_key), as sort_values(['agent', 'week_key']).
KeyLess(k1, k2) ==
    \/ NameRank(k1[1]) < NameRank(k2[1])
    \/ k1[1] = k2[1] /\ StrLess(k1[2], k2[2])

\* The keys of a finite set in ascending order.
RECURSIVE SortKeys(_)
SortKeys(S) ==
    IF S = {} THEN <<>>
    ELSE LET m == CHOOSE k \in S : \A o \in S \ {k} : KeyLess(k, o)
         IN  <<m>> \o SortKeys(S \ {m})

-----------------------------------------------------------------------------
(* Column operations of a data frame held as a sequence of rows.           *)

\* A date pd.to_datetime(errors='coerce') could not parse.
NaT == -1

\* df.dropna(subset=['date'])
DropNaT(df) == SelectSeq(df, LAMBDA r : r.date # NaT)

\* df[col] as a sequence of values.
Col(df, col) == [i \in 1..Len(df) |-> df[i][col]]

\* Every name of cols is a column of df: the rows of a frame all carry the
\* frame's columns.
HasColumns(df, cols) == \A i \in 1..Len(df) : cols \subseteq DOMAIN df[i]

\* df.drop(columns=[col]); dropping a name that is no column changes nothing.
DropColumn(df, col) ==
    [i \in 1..Len(df) |-> [c \in DOMAIN df[i] \ {col} |-> df[i][c]]]

\* A slip: the aggregation 'last' in place of 'sum'.
SeriesSum_last(vals) == IF vals = <<>> THEN 0 ELSE vals[Len(vals)]

\* Series.sum(): the values accumulated in row order.
RECURSIVE SeriesSum(_)
SeriesSum(vals) == IF vals = <<>> THEN 0 ELSE Head(vals) + SeriesSum(Tail(vals))

ColSum(df, col) == SeriesSum(Col(df, col))

RowWeekKey(r) == WeekKey(get_tue_mon_week(r.date))

\* Series.min() / Series.max() of the date column of a non-empty group.
DateMin(grp) == CHOOSE d \in {grp[i].date : i \in 1..Len(grp)} :
                    \A i \in 1..Len(grp) : d <= grp[i].date

DateMax(grp) == CHOOSE d \in {grp[i].date : i \in 1..Len(grp)} :
                    \A i \in 1..Len(grp) : d >= grp[i].date

\* The orders sort_values('date') may leave the rows of df in: ascending by
\* date, rows of equal date in any order (the default sort is not stable).
DateSortedOrders(df) ==
    {p \in Permutations(1..Len(df)) :
        \A i, j \in 1..Len(df) : i < j => df[p[i]].date <= df[p[j]].date}

Reorder(df, p) == [i \in 1..Len(df) |-> df[p[i]]]

\* A slip: the last row's arppu, zero or not.
LastNonZeroArppu_lastrow(rows) == IF rows = <<>> THEN 0 ELSE rows[Len(rows)].arppu

\* nonzero = arppu_col[arppu_col > 0]; nonzero.iloc[-1] if len(nonzero) > 0 else 0
LastNonZeroArppu(rows) ==
    LET nonzero == SelectSeq(rows, LAMBDA r : r.arppu > 0)
    IN  IF Len(nonzero) > 0 THEN nonzero[Len(nonzero)].arppu ELSE 0

\* round(x, k) with scale = 10^k.  Python rounds the binary float, so a value
\* that is an exact decimal tie may go either way: half_up is that outcome.
Round(x, scale, half_up) ==
    LET num == x.n * scale
        q == num \div x.d
        r == num % x.d
    IN  IF x.d = 0 THEN x
        ELSE IF 2 * r > x.d THEN Rat(q + 1, scale)
        ELSE IF 2 * r < x.d THEN Rat(q, scale)
        ELSE IF half_up THEN Rat(q + 1, scale) ELSE Rat(q, scale)

-----------------------------------------------------------------------------
(* Configuration: the fixed FX rate, the KPI weights and the tier tables.  *)

\* A cent amount as the dollar (or peso) value the code computes with.
Money(c) == Rat(c, 100)

\* KPI_PHP_USD_RATE: "ARPPU / 57.7 / CPD"
KPI_PHP_USD_RATE == Rat(577, 10)

\* The auto KPIs in the order of KPI_SCORING.
AutoKeys == <<"cpa", "roas", "cvr", "ctr", "account_dev", "ab_testing", "reporting">>

\* The manual KPIs in the order of KPI_MANUAL.
ManualKeys == <<"campaign_setup", "data_insights", "collaboration", "communication">>

\* KPI_SCORING[key]['weight']: 12.5%, 12.5%, 15%, 7.5%, 10%, 7.5%, 10%.
AutoWeight ==
    [cpa |-> Rat(125, 1000), roas |-> Rat(125, 1000), cvr |-> Rat(150, 1000),
     ctr |-> Rat(75, 1000), account_dev |-> Rat(100, 1000),
     ab_testing |-> Rat(75, 1000), reporting |-> Rat(100, 1000)]

\* KPI_MANUAL[key]['weight']: Campaign Setup 15%, Collaboration 10%; the other
\* manual KPIs carry no weight.
ManualWeight ==
    [campaign_setup |-> Rat(150, 1000), data_insights |-> Zero,
     collaboration |-> Rat(100, 1000), communication |-> Zero]

\* The tier of a lower-is-better value: 4 up to t4, 3 up to t3, 2 up to t2, else 1.
TierLower(v, t4, t3, t2) ==
    IF RatLeq(v, t4) THEN 4 ELSE IF RatLeq(v, t3) THEN 3
    ELSE IF RatLeq(v, t2) THEN 2 ELSE 1

\* The tier of a higher-is-better value: 4 from t4, 3 from t3, 2 from t2, else 1.
TierHigher(v, t4, t3, t2) ==
    IF RatGeq(v, t4) THEN 4 ELSE IF RatGeq(v, t3) THEN 3
    ELSE IF RatGeq(v, t2) THEN 2 ELSE 1

\* score_kpi(kpi_key, value) -> (score, value): a value of 0 is "not applicable"
\* and scores 0; any other value scores by its tier table.
score_kpi(key, v) ==
    IF v = Zero THEN <<0, Zero>>
    ELSE CASE key = "cpa"  -> <<TierLower(v, Rat(999, 100), Rat(1399, 100), Rat(1500, 100)), v>>
           [] key = "roas" -> <<TierHigher(v, Rat(40, 100), Rat(20, 100), Rat(10, 100)), v>>
           [] key = "cvr"  -> <<TierHigher(v, RatInt(7), RatInt(4), RatInt(2)), v>>
           [] key = "ctr"  -> <<TierHigher(v, RatInt(3), RatInt(2), RatInt(1)), v>>
           [] OTHER        -> <<0, v>>

\* score_account_dev(total_accounts): >= 5 -> 4, 3-4 -> 3, 2 -> 2, < 2 -> 1.
score_account_dev(total) ==
    IF total >= 5 THEN 4 ELSE IF total >= 3 THEN 3 ELSE IF total >= 2 THEN 2 ELSE 1

\* score_ab_testing(published): >= 20 -> 4, 11-19 -> 3, 6-10 -> 2, < 6 -> 1.
score_ab_testing(published) ==
    IF published >= 20 THEN 4 ELSE IF published >= 11 THEN 3
    ELSE IF published >= 6 THEN 2 ELSE 1

-----------------------------------------------------------------------------
(* build_weekly_agent_df (pages/28_Weekly_KPI.py).                         *)

\* A slip: the division without its guard.
AgentCpa_unguarded(r) == RatDiv(Money(r.cost), RatInt(r.ftd))

\* A slip: cost per registration in place of cost per FTD.
AgentCpa_perRegister(r) ==
    IF r.register > 0 THEN RatDiv(Money(r.cost), RatInt(r.register)) ELSE Zero

\* lambda r: r['cost'] / r['ftd'] if r['ftd'] > 0 else 0
AgentCpa(r) == IF r.ftd > 0 THEN RatDiv(Money(r.cost), RatInt(r.ftd)) ELSE Zero

\* lambda r: r['arppu'] / KPI_PHP_USD_RATE / (r['cost'] / r['ftd'])
\*     if r['ftd'] > 0 and r['cost'] > 0 else 0
AgentRoas(r) ==
    IF r.ftd > 0 /\ r.cost > 0
    THEN RatDiv(RatDiv(Money(r.arppu), KPI_PHP_USD_RATE),
                RatDiv(Money(r.cost), RatInt(r.ftd)))
    ELSE Zero

\* lambda r: r['ftd'] / r['register'] * 100 if r['register'] > 0 else 0
AgentCvr(r) ==
    IF r.register > 0
    THEN RatMul(RatDiv(RatInt(r.ftd), RatInt(r.register)), RatInt(100))
    ELSE Zero

\* lambda r: r['clicks'] / r['impressions'] * 100 if r['impressions'] > 0 else 0
AgentCtr(r) ==
    IF r.impressions > 0
    THEN RatMul(RatDiv(RatInt(r.clicks), RatInt(r.impressions)), RatInt(100))
    ELSE Zero

\* The rows of df in the group (agent, week_key), in the order of df.
AgentGroup(df, k) == SelectSeq(df, LAMBDA r : r.agent = k[1] /\ RowWeekKey(r) = k[2])

\* df.groupby(['agent', 'week_key']).agg(...) merged with the ARPPU pick: one
\* row.  sorted_df is df after sort_values('date').
AgentAgg(df, sorted_df, k) ==
    LET grp == AgentGroup(df, k)
    IN  [agent |-> k[1], week_key |-> k[2],
         cost |-> ColSum(grp, "cost"), register |-> ColSum(grp, "register"),
         ftd |-> ColSum(grp, "ftd"), impressions |-> ColSum(grp, "impressions"),
         clicks |-> ColSum(grp, "clicks"),
         date_start |-> DateMin(grp), date_end |-> DateMax(grp),
         arppu |-> LastNonZeroArppu(AgentGroup(sorted_df, k))]

\* The derived metrics, scores, weighted score, day count and label of a row.
WeeklyAgentRow(r, half_up) ==
    LET cpa     == AgentCpa(r)
        roas    == AgentRoas(r)
        cvr     == AgentCvr(r)
        ctr     == AgentCtr(r)
        cpa_s   == score_kpi("cpa", cpa)[1]
        roas_s  == score_kpi("roas", roas)[1]
        cvr_s   == score_kpi("cvr", cvr)[1]
        ctr_s   == score_kpi("ctr", ctr)[1]
        auto    == RatAdd(RatAdd(RatMul(RatInt(cpa_s), AutoWeight["cpa"]),
                                 RatMul(RatInt(roas_s), AutoWeight["roas"])),
                          RatAdd(RatMul(RatInt(cvr_s), AutoWeight["cvr"]),
                                 RatMul(RatInt(ctr_s), AutoWeight["ctr"])))
    IN  [agent |-> r.agent, week_key |-> r.week_key,
         cost |-> r.cost, register |-> r.register, ftd |-> r.ftd,
         impressions |-> r.impressions, clicks |-> r.clicks,
         date_start |-> r.date_start, date_end |-> r.date_end,
         arppu |-> r.arppu, cpa |-> cpa, roas |-> roas, cvr |-> cvr, ctr |-> ctr,
         cpa_score |-> cpa_s, roas_score |-> roas_s,
         cvr_score |-> cvr_s, ctr_score |-> ctr_s,
         auto_weighted |-> Round(auto, 100, half_up),
         days |-> (r.date_end - r.date_start) + 1,
         week_label |-> <<r.date_start, r.date_end>>]

\* The columns groupby(...).agg(...) and grp_sorted['arppu'] read by name.
AgentNumericColumns == {"cost", "register", "ftd", "impressions", "clicks", "arppu"}

\* The named aggregation (or the ARPPU pick) raises KeyError on a frame that
\* lacks one of the columns it names.
AgentColumnsMissing(df) == ~HasColumns(df, AgentNumericColumns)

\* build_weekly_agent_df(daily_df).  order is the row order sort_values('date')
\* produced; half_up the outcome of rounding an exact tie.  When every date is
\* unparseable the ARPPU frame has no columns and the merge raises KeyError.
build_weekly_agent_df(daily_df, order, half_up) ==
    IF daily_df = <<>> THEN Returned(<<>>)
    ELSE LET df   == DropNaT(daily_df)
             keys == {<<df[i].agent, RowWeekKey(df[i])>> : i \in 1..Len(df)}
             ks   == SortKeys(keys)
         IN  IF df = <<>> \/ AgentColumnsMissing(df) THEN Raised("KeyError")
             ELSE Returned([i \in 1..Len(ks) |->
                      WeeklyAgentRow(AgentAgg(df, Reorder(df, order), ks[i]), half_up)])

-----------------------------------------------------------------------------
(* build_weekly_team_df (pages/29_Weekly_Team_KPI.py).                     *)

\* The team cell of a row whose channel has no entry in the mapping.
NaN == "NaN"

\* The team cell of a daily row when the frame has no 'team' column at all.
NoColumn == "no column"

\* df['channel'].map(channel_team_map)
MapTeam(df, map) ==
    [i \in 1..Len(df) |->
        [df[i] EXCEPT !.team = IF df[i].channel \in DOMAIN map
                               THEN map[df[i].channel] ELSE NaN]]

\* A slip: the rows of team 'All' kept.
RealTeamRows_keepAll(df) == SelectSeq(df, LAMBDA r : r.team # NaN /\ r.team # "")

\* df[df['team'].notna() & (df['team'] != '') & (df['team'] != 'All')]
RealTeamRows(df) ==
    SelectSeq(df, LAMBDA r : r.team # NaN /\ r.team # "" /\ r.team # "All")

\* A slip: the division without its guard.
TeamCpfd_unguarded(r) == RatDiv(Money(r.cost), RatInt(r.first_recharge))

\* lambda r: r['cost'] / r['registrations'] if r['registrations'] > 0 else 0
TeamCpr(r) ==
    IF r.registrations > 0 THEN RatDiv(Money(r.cost), RatInt(r.registrations)) ELSE Zero

\* lambda r: r['cost'] / r['first_recharge'] if r['first_recharge'] > 0 else 0
TeamCpfd(r) ==
    IF r.first_recharge > 0 THEN RatDiv(Money(r.cost), RatInt(r.first_recharge))
    ELSE Zero

\* lambda r: r['total_amount'] / r['first_recharge'] if r['first_recharge'] > 0 else 0
TeamArppu(r) ==
    IF r.first_recharge > 0
    THEN RatDiv(Money(r.total_amount), RatInt(r.first_recharge))
    ELSE Zero

\* lambda r: r['total_amount'] / r['cost'] if r['cost'] > 0 else 0
TeamRoas(r) ==
    IF r.cost > 0 THEN RatDiv(Money(r.total_amount), Money(r.cost)) ELSE Zero

TeamGroup(df, k) == SelectSeq(df, LAMBDA r : r.team = k[1] /\ RowWeekKey(r) = k[2])

\* df.groupby(['team', 'week_key']).agg(...): one row.
TeamAgg(df, k) ==
    LET grp == TeamGroup(df, k)
    IN  [team |-> k[1], week_key |-> k[2],
         cost |-> ColSum(grp, "cost"), registrations |-> ColSum(grp, "registrations"),
         first_recharge |-> ColSum(grp, "first_recharge"),
         total_amount |-> ColSum(grp, "total_amount"),
         date_start |-> DateMin(grp), date_end |-> DateMax(grp)]

\* The derived metrics, day count and label of a row.
WeeklyTeamRow(r) ==
    [team |-> r.team, week_key |-> r.week_key,
     cost |-> r.cost, registrations |-> r.registrations,
     first_recharge |-> r.first_recharge, total_amount |-> r.total_amount,
     date_start |-> r.date_start, date_end |-> r.date_end,
     cpr |-> TeamCpr(r), cpfd |-> TeamCpfd(r),
     arppu |-> TeamArppu(r), roas |-> TeamRoas(r),
     days |-> (r.date_end - r.date_start) + 1,
     week_label |-> <<r.date_start, r.date_end>>]

\* The columns groupby(['team', 'week_key']).agg(...) reads by name.
TeamNumericColumns == {"cost", "registrations", "first_recharge", "total_amount"}

\* build_weekly_team_df(daily_df, channel_team_map).  With an empty mapping the
\* 'team' column is never assigned; reading it from a frame that has none
\* raises KeyError.
build_weekly_team_df(daily_df, map) ==
    IF daily_df = <<>> THEN Returned(<<>>)
    ELSE LET df0 == DropNaT(daily_df)
             df1 == IF DOMAIN map # {} THEN MapTeam(df0, map) ELSE df0
         IN  IF DOMAIN map = {} /\ \A i \in 1..Len(daily_df) : daily_df[i].team = NoColumn
             THEN Raised("KeyError")
             ELSE LET df   == RealTeamRows(df1)
                      keys == {<<df[i].team, RowWeekKey(df[i])>> : i \in 1..Len(df)}
                      ks   == SortKeys(keys)
                  IN  IF df = <<>> THEN Returned(<<>>)
                      ELSE IF ~HasColumns(df, TeamNumericColumns)
                      THEN Raised("KeyError")
                      ELSE Returned([i \in 1..Len(ks) |-> WeeklyTeamRow(TeamAgg(df, ks[i]))])

-----------------------------------------------------------------------------
(* calculate_kpi_from_daily (pages/24_KPI_Monitoring.py).                  *)

\* agent_daily[(date_dt >= date_from) & (date_dt <= date_to)]; NaT compares False.
InRange(df, agent_name, date_from, date_to) ==
    SelectSeq(df, LAMBDA r : /\ r.agent = agent_name
                             /\ r.date # NaT
                             /\ r.date >= date_from /\ r.date <= date_to)

\* A slip: the guard on the FTDs turned around.
KpiCpa_guardFlipped(cost, ftd) ==
    IF ftd > 0 THEN Zero ELSE RatDiv(Money(cost), RatInt(ftd))

\* cost / ftd if ftd > 0 else 0
KpiCpa(cost, ftd) == IF ftd > 0 THEN RatDiv(Money(cost), RatInt(ftd)) ELSE Zero

\* A slip: the ratio upside down, cost per FTD over ARPPU.
KpiRoas_inverted(arppu, cpd) ==
    IF RatGt(cpd, Zero) /\ arppu > 0
    THEN RatDiv(RatDiv(cpd, KPI_PHP_USD_RATE), Money(arppu))
    ELSE Zero

\* arppu / KPI_PHP_USD_RATE / cpd if (cpd > 0 and arppu > 0) else 0
KpiRoas(arppu, cpd) ==
    IF RatGt(cpd, Zero) /\ arppu > 0
    THEN RatDiv(RatDiv(Money(arppu), KPI_PHP_USD_RATE), cpd)
    ELSE Zero

\* (ftd / register * 100) if register > 0 else 0
KpiCvr(ftd, register) ==
    IF register > 0 THEN RatMul(RatDiv(RatInt(ftd), RatInt(register)), RatInt(100))
    ELSE Zero

\* (clicks / impressions * 100) if impressions > 0 else 0
KpiCtr(clicks, impressions) ==
    IF impressions > 0
    THEN RatMul(RatDiv(RatInt(clicks), RatInt(impressions)), RatInt(100))
    ELSE Zero

\* {'score': s, 'value': round(v, k)}
Scored(sv, scale, half_up) == [score |-> sv[1], value |-> Round(sv[2], scale, half_up)]

NotScored == [score |-> 0, value |-> Zero]

\* A slip: the worst tier for an agent without data.
KpiNoRows_worst ==
    [cpa |-> [score |-> 1, value |-> Zero], roas |-> [score |-> 1, value |-> Zero],
     cvr |-> [score |-> 1, value |-> Zero], ctr |-> [score |-> 1, value |-> Zero]]

\* The CPA, ROAS, CVR and CTR entries when the agent has no row in the range.
KpiNoRows == [cpa |-> NotScored, roas |-> NotScored, cvr |-> NotScored, ctr |-> NotScored]

\* The CPA, ROAS, CVR and CTR entries from the agent's rows of the range.
KpiFromRows(agent_daily, half_up) ==
    LET cost    == ColSum(agent_daily, "cost")
        register == ColSum(agent_daily, "register")
        ftd     == ColSum(agent_daily, "ftd")
        impressions == ColSum(agent_daily, "impressions")
        clicks  == ColSum(agent_daily, "clicks")
        arppu   == LastNonZeroArppu(agent_daily)
        cpa     == KpiCpa(cost, ftd)
        cpd     == KpiCpa(cost, ftd)
    IN  [cpa  |-> Scored(score_kpi("cpa", cpa), 100, half_up),
         roas |-> Scored(score_kpi("roas", KpiRoas(arppu, cpd)), 10000, half_up),
         cvr  |-> Scored(score_kpi("cvr", KpiCvr(ftd, register)), 100, half_up),
         ctr  |-> Scored(score_kpi("ctr", KpiCtr(clicks, impressions)), 100, half_up)]

\* What the caller is left with when the function raised instead of returning
\* the scores.
KpiRaised(e) == [error |-> e]

\* calculate_kpi_from_daily(daily_df, agent_name, date_from, date_to, ...).
\* args.acct_total and args.ab_published are the counts of the agent's created
\* assets and published ads; args.reporting is the agent's entry of the
\* reporting data (present = FALSE when it has none), taken as it was fetched.
\* agent_daily['cost'].sum() and the reads after it raise KeyError when the
\* rows of the range lack the column.
calculate_kpi_from_daily(daily_df, args, half_up) ==
    LET agent_daily == InRange(daily_df, args.agent_name, args.date_from, args.date_to)
        auto4 == IF agent_daily = <<>> THEN KpiNoRows
                 ELSE KpiFromRows(agent_daily, half_up)
        rep   == args.reporting
    IN  IF agent_daily # <<>> /\ ~HasColumns(agent_daily, AgentNumericColumns)
        THEN KpiRaised("KeyError") ELSE
        [cpa |-> auto4.cpa, roas |-> auto4.roas, cvr |-> auto4.cvr, ctr |-> auto4.ctr,
         account_dev |-> [score |-> score_account_dev(args.acct_total),
                          value |-> RatInt(args.acct_total)],
         ab_testing  |-> [score |-> score_ab_testing(args.ab_published),
                          value |-> RatInt(args.ab_published)],
         reporting   |-> IF ~rep.present THEN NotScored
                         ELSE [score |-> rep.score, value |-> RatInt(rep.avg_minute)]]

-----------------------------------------------------------------------------
(* calc_auto_weighted, calc_manual_weighted and the grand total            *)
(* (pages/24_KPI_Monitoring.py).                                           *)

\* scores.get(f"{agent}_{key}", 0)
get_manual_score(session, key) == IF key \in DOMAIN session THEN session[key] ELSE 0

\* for key, info in KPI_MANUAL.items(): if score > 0 and weight > 0: total += ...
RECURSIVE ManualLoop(_, _)
ManualLoop(session, keys) ==
    IF keys = <<>> THEN Zero
    ELSE LET score == get_manual_score(session, Head(keys))
             w     == ManualWeight[Head(keys)]
             rest  == ManualLoop(session, Tail(keys))
         IN  IF score > 0 /\ RatGt(w, Zero) THEN RatAdd(RatMul(RatInt(score), w), rest)
             ELSE rest

\* calc_manual_weighted(agent): round(total, 2)
calc_manual_weighted(session, half_up) == Round(ManualLoop(session, ManualKeys), 100, half_up)

\* A slip: the four weekly KPIs only, as in the weekly auto_weighted.
AutoLoop_weeklyFour(a_scores, keys) ==
    LET s(k) == IF k \in DOMAIN a_scores THEN a_scores[k] ELSE 0
    IN  Rat(125 * s("cpa") + 125 * s("roas") + 150 * s("cvr") + 75 * s("ctr"), 1000)

\* for key in KPI_SCORING: s = agent_scores.get(key, {}).get('score', 0); ...
RECURSIVE AutoLoop(_, _)
AutoLoop(a_scores, keys) ==
    IF keys = <<>> THEN Zero
    ELSE LET s    == IF Head(keys) \in DOMAIN a_scores THEN a_scores[Head(keys)] ELSE 0
             w    == AutoWeight[Head(keys)]
             rest == AutoLoop(a_scores, Tail(keys))
         IN  IF RatGt(w, Zero) THEN RatAdd(RatMul(RatInt(s), w), rest) ELSE rest

\* calc_auto_weighted(agent_scores): round(total, 2)
calc_auto_weighted(a_scores, half_up) == Round(AutoLoop(a_scores, AutoKeys), 100, half_up)

\* A slip: the manual total counted twice.
GrandTotal_double(auto, manual, half_up) ==
    Round(RatAdd(auto, RatAdd(manual, manual)), 100, half_up)

\* grand_total = round(auto_weighted_total + manual_weighted_total, 2)
GrandTotal(auto, manual, half_up) == Round(RatAdd(auto, manual), 100, half_up)

-----------------------------------------------------------------------------
(* Inputs.                                                                 *)

\* The longest daily frame.
MaxRows == 3

\* The last day number whose week is computed.
LastDay == 1500

\* 2024-12-16 .. : four ISO year boundaries lie in the range.
WeekDates == 350..LastDay

AgentRow(agent, d, cost, register, ftd, impressions, clicks, arppu) ==
    [agent |-> agent, date |-> d, cost |-> cost, register |-> register, ftd |-> ftd,
     impressions |-> impressions, clicks |-> clicks, arppu |-> arppu]

\* Tue 2025-12-30, Wed 2025-12-31 (one Tue-Mon week) and Tue 2026-01-06 (the next).
SumDates == {729, 730, 736}

\* Daily metrics: (cost, register, ftd, impressions, clicks, arppu).  Each has a
\* zero denominator beside a non-zero numerator; together they are all non-zero.
SumMetrics == {<<1000, 0, 1, 0, 3, 0>>, <<500, 2, 0, 100, 0, 0>>, <<0, 1, 1, 50, 1, 5000>>}

SumRows == {AgentRow(a, d, m[1], m[2], m[3], m[4], m[5], m[6]) :
                a \in {"X", "Y"}, d \in SumDates, m \in SumMetrics}

\* Rows of one agent that differ in date and ARPPU: Mon 2025-12-29 closes the
\* week before the one of Tue 2025-12-30 .. Thu 2026-01-01.
ArppuRows == {AgentRow("X", d, 1000, 2, 1, 100, 3, a) :
                  d \in {728, 729, 730, 731}, a \in {0, 5000, 6000}}

SeqsUpTo(S, n) == UNION {[1..k -> S] : k \in 0..n}

AgentFrames == SeqsUpTo(SumRows, MaxRows) \cup SeqsUpTo(ArppuRows, MaxRows)

NoReporting == [present |-> FALSE, score |-> 0, avg_minute |-> 0]

\* The week 2025-12-30 .. 2026-01-05 of agent X, no assets, ads or reports.
WeekArgs == [agent_name |-> "X", date_from |-> 729, date_to |-> 735,
             acct_total |-> 0, ab_published |-> 0, reporting |-> NoReporting]

TeamRow(channel, d, cost, registrations, first_recharge, total_amount) ==
    [channel |-> channel, date |-> d, cost |-> cost, registrations |-> registrations,
     first_recharge |-> first_recharge, total_amount |-> total_amount,
     team |-> NoColumn]

Channels == {"FB-FB-FB-DEERPROMO07", "FB-FB-FB-DEERPROMO12", "FB-FB-FB-DEERPROMO99"}

\* (cost, registrations, first_recharge, total_amount)
TeamMetrics == {<<500, 0, 0, 0>>, <<0, 1, 1, 5000>>}

TeamRows == {TeamRow(c, d, m[1], m[2], m[3], m[4]) :
                 c \in Channels, d \in {729, 736}, m \in TeamMetrics}

TeamFrames == SeqsUpTo(TeamRows, MaxRows)

EmptyMap == [c \in {} |-> ""]

TeamMaps ==
    { EmptyMap,
      [c \in {"FB-FB-FB-DEERPROMO07", "FB-FB-FB-DEERPROMO12"} |-> "Team A"],
      [c \in {"FB-FB-FB-DEERPROMO07", "FB-FB-FB-DEERPROMO12"} |->
          IF c = "FB-FB-FB-DEERPROMO07" THEN "Team A" ELSE "Team B"] }

ScoreVals == 0..4

-----------------------------------------------------------------------------
(* The state machine: a page's pass hands its inputs to one function.      *)

NoScores == [cpa |-> NotScored, roas |-> NotScored, cvr |-> NotScored, ctr |-> NotScored,
             account_dev |-> NotScored, ab_testing |-> NotScored, reporting |-> NotScored]

NoTotals == [auto |-> Zero, manual |-> Zero, grand |-> Zero]

\* The step-by-step passes' variables when no such pass runs.
RestIdle(used) ==
    /\ "store" \in used \/ (store = <<>> /\ pass_df = <<>>)
    /\ "widgets" \in used \/ (widgets = <<>> /\ view = "")
    /\ "reporter" \in used
       \/ (last_report = <<>> /\ report_run = <<>> /\ no_change_alert = FALSE)

\* The variables a pass does not use.
Idle(used) ==
    /\ RestIdle(used)
    /\ "date" \in used \/ date = 0
    /\ week_info = <<0, 0>>
    /\ "daily" \in used \/ daily = <<>>
    /\ "team" \in used \/ (team_daily = <<>> /\ channel_team_map = EmptyMap)
    /\ weekly = Returned(<<>>)
    /\ weekly_team = Returned(<<>>)
    /\ "kpi" \in used \/ kpi_args = WeekArgs
    /\ scores = NoScores
    /\ agent_scores = <<>> /\ manual_scores = <<>>
    /\ totals = NoTotals
    /\ "overall" \in used \/ overall_df = <<>>
    /\ "actual" \in used \/ team_actual = <<>>
    /\ team_agg = <<>>
    /\ "delta" \in used \/ delta_args = <<>>
    /\ delta = ""
    /\ "selection" \in used \/ selection = <<>>
    /\ wow = <<>>

InitWeeklyKpi ==
    /\ page = "weekly_kpi" /\ pc = "start"
    /\ daily \in AgentFrames
    /\ Idle({"daily"})

InitKpiMonitoring ==
    /\ page = "kpi_monitoring" /\ pc = "start"
    /\ daily \in AgentFrames
    /\ kpi_args = WeekArgs
    /\ Idle({"daily", "kpi"})

InitWeeklyTeamKpi ==
    /\ page = "weekly_team_kpi" /\ pc = "start"
    /\ team_daily \in TeamFrames
    /\ channel_team_map \in TeamMaps
    /\ Idle({"team"})

Init == InitKpiMonitoring \/ InitWeeklyKpi \/ InitWeeklyTeamKpi

\* pages/28: weekly = build_weekly_agent_df(daily_df)
BuildWeeklyAgentDf ==
    /\ page = "weekly_kpi" /\ pc = "start"
    /\ \E order \in DateSortedOrders(DropNaT(daily)), half_up \in BOOLEAN :
           weekly' = build_weekly_agent_df(daily, order, half_up)
    /\ pc' = "done"
    /\ UNCHANGED <<page, date, week_info, daily, team_daily, channel_team_map,
                   weekly_team, kpi_args, scores, agent_scores, manual_scores, totals,
                   teamVars, wowVars, restVars>>

\* pages/29: weekly = build_weekly_team_df(daily_df, channel_team_map)
BuildWeeklyTeamDf ==
    /\ page = "weekly_team_kpi" /\ pc = "start"
    /\ weekly_team' = build_weekly_team_df(team_daily, channel_team_map)
    /\ pc' = "done"
    /\ UNCHANGED <<page, date, week_info, daily, team_daily, channel_team_map,
                   weekly, kpi_args, scores, agent_scores, manual_scores, totals,
                   teamVars, wowVars, restVars>>

\* pages/24: live_scores[agent] = calculate_kpi_from_daily(daily_df, agent, ...)
CalculateKpiFromDaily ==
    /\ page = "kpi_monitoring" /\ pc = "start"
    /\ \E half_up \in BOOLEAN :
           scores' = calculate_kpi_from_daily(daily, kpi_args, half_up)
    /\ pc' = "done"
    /\ UNCHANGED <<page, date, week_info, daily, team_daily, channel_team_map,
                   weekly, weekly_team, kpi_args, agent_scores, manual_scores, totals,
                   teamVars, wowVars, restVars>>

Next == BuildWeeklyAgentDf \/ BuildWeeklyTeamDf \/ CalculateKpiFromDaily

Spec == Init /\ [][Next]_vars

\* Week bucketing alone, over every date of WeekDates.
InitWeek ==
    /\ page = "bucket" /\ pc = "start"
    /\ date \in WeekDates
    /\ Idle({"date"})

GetTueMonWeek ==
    /\ page = "bucket" /\ pc = "start"
    /\ week_info' = get_tue_mon_week(date)
    /\ pc' = "done"
    /\ UNCHANGED <<page, date, daily, team_daily, channel_team_map, weekly,
                   weekly_team, kpi_args, scores, agent_scores, manual_scores, totals,
                   teamVars, wowVars, restVars>>

NextWeek == GetTueMonWeek

SpecWeek == InitWeek /\ [][NextWeek]_vars

-----------------------------------------------------------------------------
(* The channel -> team mapping built from the PER TEAM ACTUAL section      *)
(* (pages/29_Weekly_Team_KPI.py and pages/25_Team_KPI.py).  A channel      *)
(* source is the sequence of its characters.                               *)

DigitChars == <<"0", "1", "2", "3", "4", "5", "6", "7", "8", "9">>

IsDigit(c) == \E k \in 1..10 : DigitChars[k] = c

DigitValue(c) == (CHOOSE k \in 1..10 : DigitChars[k] = c) - 1

\* re.findall(r'(\d+)', ch_src): the maximal runs of digits, left to right;
\* run is the run being read.
RECURSIVE FindAllDigits(_, _)
FindAllDigits(s, run) ==
    LET closed == IF run = <<>> THEN <<>> ELSE <<run>>
    IN  IF s = <<>> THEN closed
        ELSE IF IsDigit(Head(s)) THEN FindAllDigits(Tail(s), Append(run, Head(s)))
        ELSE closed \o FindAllDigits(Tail(s), <<>>)

\* int(n)
RECURSIVE IntOf(_)
IntOf(n) ==
    IF n = <<>> THEN 0
    ELSE 10 * IntOf(SubSeq(n, 1, Len(n) - 1)) + DigitValue(n[Len(n)])

\* str(k) of a natural number.
RECURSIVE Decimal(_)
Decimal(k) ==
    IF k < 10 THEN DigitChars[k + 1]
    ELSE Decimal(k \div 10) \o DigitChars[(k % 10) + 1]

\* f'{k:02d}': padded to two digits, never cut.
Format02d(k) == IF k < 10 THEN "0" \o Decimal(k) ELSE Decimal(k)

\* f'FB-FB-FB-DEERPROMO{int(n):02d}'
ChannelCode(n) == "FB-FB-FB-DEERPROMO" \o Format02d(IntOf(n))

\* for n in nums: channel_team_map[code] = team
RECURSIVE MapNums(_, _, _)
MapNums(map, nums, team) ==
    IF nums = <<>> THEN map
    ELSE LET code == ChannelCode(Head(nums))
             m2   == [c \in DOMAIN map \cup {code} |-> IF c = code THEN team ELSE map[c]]
         IN  MapNums(m2, Tail(nums), team)

\* for _, row in team_actual_df.iterrows(): skip a row without team or source.
RECURSIVE BuildChannelTeamMap(_, _)
BuildChannelTeamMap(map, rows) ==
    IF rows = <<>> THEN map
    ELSE LET row == Head(rows)
         IN  IF row.team = "" \/ row.channel_source = <<>>
             THEN BuildChannelTeamMap(map, Tail(rows))
             ELSE BuildChannelTeamMap(
                      MapNums(map, FindAllDigits(row.channel_source, <<>>), row.team),
                      Tail(rows))

\* The longest generated channel source.
MaxSourceLen == 3

\* Sources as the sheet has them today.
SheetSources ==
    {<<"P", "r", "o", "m", "o", " ", "-", " ", "0", "7", " ", "-", " ", "1", "2", " ", "-", " ", "1", "3">>,
     <<"P", "r", "o", "m", "o", " ", "-", " ", "0", "7", " ", "-", " ", "1", "2", "-", " ", "1", "3">>,
     <<"P", "r", "o", "m", "o", " ", "-", " ", "1", "0", " ", "-", " ", "1", "1">>,
     <<"P", "r", "o", "m", "o", " ", "-", " ", "6", " ", "-", " ", "8">>,
     <<"P", "r", "o", "m", "o", " ", "9">>}

\* Every source of up to MaxSourceLen characters over digits and a blank.
TypedSources == SeqsUpTo({"0", "1", "7", " "}, MaxSourceLen)

ActualRow(team, source) == [team |-> team, channel_source |-> source]

\* One row of any source, or two rows of the sheet's sources.
TeamActualFrames ==
    {<<ActualRow(t, s)>> : t \in {"Team A", ""}, s \in TypedSources \cup SheetSources}
        \cup {<<ActualRow("Team A", s1), ActualRow("Team B", s2)>> :
                  s1 \in SheetSources, s2 \in SheetSources}

InitMapping ==
    /\ page = "team_mapping" /\ pc = "start"
    /\ team_actual \in TeamActualFrames
    /\ Idle({"actual"})

\* pages/29, 25: channel_team_map = {} ; for _, row in team_actual_df.iterrows(): ...
BuildMapping ==
    /\ page = "team_mapping" /\ pc = "start"
    /\ channel_team_map' = BuildChannelTeamMap(EmptyMap, team_actual)
    /\ pc' = "done"
    /\ UNCHANGED <<page, date, week_info, daily, team_daily, weekly,
                   weekly_team, kpi_args, scores, agent_scores, manual_scores, totals,
                   teamVars, wowVars, restVars>>

NextMapping == BuildMapping

SpecMapping == InitMapping /\ [][NextMapping]_vars

-----------------------------------------------------------------------------
(* pages/18_Team_Channel_By_Team.py: the per-team totals of the overall    *)
(* section, and the team pages together.                                   *)

\* CHANNEL_TO_TEAM: the literal promo channel -> team table.
CHANNEL_TO_TEAM ==
    [c \in {"FB-FB-FB-DEERPROMO07", "FB-FB-FB-DEERPROMO12", "FB-FB-FB-DEERPROMO13",
            "FB-FB-FB-DEERPROMO10", "FB-FB-FB-DEERPROMO11", "FB-FB-FB-DEERPROMO06",
            "FB-FB-FB-DEERPROMO08", "FB-FB-FB-DEERPROMO09"} |->
        IF c \in {"FB-FB-FB-DEERPROMO07", "FB-FB-FB-DEERPROMO12", "FB-FB-FB-DEERPROMO13"}
        THEN "JASON / SHILA / ADRIAN"
        ELSE IF c \in {"FB-FB-FB-DEERPROMO10", "FB-FB-FB-DEERPROMO11"} THEN "RON / KRISSA"
        ELSE IF c \in {"FB-FB-FB-DEERPROMO06", "FB-FB-FB-DEERPROMO08"} THEN "JOMAR / MIKA"
        ELSE "DER"]

TEAM_ORDER == <<"JASON / SHILA / ADRIAN", "RON / KRISSA", "JOMAR / MIKA", "DER">>

\* CHANNEL_TO_TEAM.get(channel, 'Other')
assign_team(channel) ==
    IF channel \in DOMAIN CHANNEL_TO_TEAM THEN CHANNEL_TO_TEAM[channel] ELSE "Other"

\* overall_df['promo_team'] = overall_df['channel'].apply(assign_team)
AssignPromoTeam(df) ==
    [i \in 1..Len(df) |->
        [channel |-> df[i].channel, promo_team |-> assign_team(df[i].channel),
         cost |-> df[i].cost, registrations |-> df[i].registrations,
         first_recharge |-> df[i].first_recharge, total_amount |-> df[i].total_amount]]

\* One row of filtered_overall.groupby('promo_team').agg(sum) with its ratios.
PromoTeamRow(df, t) ==
    LET grp == SelectSeq(df, LAMBDA r : r.promo_team = t)
        r   == [cost |-> ColSum(grp, "cost"),
                registrations |-> ColSum(grp, "registrations"),
                first_recharge |-> ColSum(grp, "first_recharge"),
                total_amount |-> ColSum(grp, "total_amount")]
    IN  [promo_team |-> t, cost |-> r.cost, registrations |-> r.registrations,
         first_recharge |-> r.first_recharge, total_amount |-> r.total_amount,
         cpr |-> TeamCpr(r), cpfd |-> TeamCpfd(r), arppu |-> TeamArppu(r),
         roas |-> TeamRoas(r)]

\* team_agg: the groups present, in TEAM_ORDER, any other label (sort_order 99) last.
AggregateByPromoTeam(overall) ==
    LET df      == AssignPromoTeam(overall)
        labels  == TEAM_ORDER \o <<"Other">>
        present == SelectSeq(labels, LAMBDA t : \E i \in 1..Len(df) : df[i].promo_team = t)
    IN  [k \in 1..Len(present) |-> PromoTeamRow(df, present[k])]

\* The overall section: one row per channel occurrence, no date used.
OverallFrames ==
    SeqsUpTo({TeamRow(c, 729, m[1], m[2], m[3], m[4]) : c \in Channels, m \in TeamMetrics},
             MaxRows)

InitTeamChannelByTeam ==
    /\ page = "team_channel_by_team" /\ pc = "start"
    /\ overall_df \in OverallFrames
    /\ Idle({"overall"})

\* pages/18: team_agg = filtered_overall.groupby('promo_team').agg(...) (All Teams)
AggregateByTeam ==
    /\ page = "team_channel_by_team" /\ pc = "start"
    /\ team_agg' = AggregateByPromoTeam(overall_df)
    /\ pc' = "done"
    /\ UNCHANGED <<page, date, week_info, daily, team_daily, channel_team_map, weekly,
                   weekly_team, kpi_args, scores, agent_scores, manual_scores, totals,
                   overall_df, team_actual, wowVars, restVars>>

InitTeam == InitWeeklyTeamKpi \/ InitTeamChannelByTeam

NextTeam == BuildWeeklyTeamDf \/ AggregateByTeam

SpecTeam == InitTeam /\ [][NextTeam]_vars

-----------------------------------------------------------------------------
(* Scoring: calculate_kpi_from_daily on one day of agent X whose metric    *)
(* sweeps the tier boundaries.                                             *)

\* Cents around the CPA tiers 9.99 / 10.00, 13.99 / 14.00 and 15.00, with 1 FTD.
CpaCosts == (0..3) \cup (995..1005) \cup (1395..1405) \cup (1495..1505) \cup {1700, 9900}

\* ARPPU cents for cost 10.00 and 1 FTD: ROAS = arppu / 57700, around 0.10, 0.20, 0.40.
RoasArppus == (0..2) \cup (5765..5775) \cup (11535..11545) \cup (23075..23085) \cup {90000}

\* FTDs out of 10000 registrations: CVR around 2, 4 and 7 percent.
CvrFtds == (0..2) \cup (195..205) \cup (395..405) \cup (695..705) \cup {5000}

\* Clicks out of 10000 impressions: CTR around 1, 2 and 3 percent.
CtrClicks == (0..2) \cup (95..105) \cup (195..205) \cup (295..305) \cup {5000}

CpaFrames == {<<AgentRow("X", 729, c, 0, 1, 0, 0, 0)>> : c \in CpaCosts}

RoasFrames == {<<AgentRow("X", 729, 1000, 0, 1, 0, 0, a)>> : a \in RoasArppus}

CvrFrames == {<<AgentRow("X", 729, 0, 10000, f, 0, 0, 0)>> : f \in CvrFtds}

CtrFrames == {<<AgentRow("X", 729, 0, 0, 0, 10000, c, 0)>> : c \in CtrClicks}

\* No row of agent X in the range: no row, another agent's, another week's.
NoRowFrames == {<<>>, <<AgentRow("Y", 729, 1000, 2, 1, 100, 3, 5000)>>,
                <<AgentRow("X", 736, 1000, 2, 1, 100, 3, 5000)>>}

ScoreFrames == CpaFrames \cup RoasFrames \cup CvrFrames \cup CtrFrames \cup NoRowFrames

\* Counts of created accounts and published ads, and the agent's reporting entry.
ExtraArgs ==
    {[WeekArgs EXCEPT !.acct_total = a, !.ab_published = b, !.reporting = r] :
        a \in 0..6, b \in {0, 5, 6, 10, 11, 19, 20, 21},
        r \in {NoReporting, [present |-> TRUE, score |-> 3, avg_minute |-> 20]}}

InitScore ==
    /\ page = "kpi_monitoring" /\ pc = "start"
    /\ \/ daily \in ScoreFrames /\ kpi_args = WeekArgs
       \/ daily = <<>> /\ kpi_args \in ExtraArgs
    /\ Idle({"daily", "kpi"})

NextScore == CalculateKpiFromDaily

SpecScore == InitScore /\ [][NextScore]_vars

-----------------------------------------------------------------------------
(* Weighted totals: the individual agent view's Auto, Manual and Total.    *)

AllFour(keys) == [k \in {keys[i] : i \in 1..Len(keys)} |-> 4]

\* An empty dict.
NoEntries == [k \in {} |-> 0]

AutoAssignments == [{AutoKeys[i] : i \in 1..Len(AutoKeys)} -> ScoreVals]

ManualAssignments == [{ManualKeys[i] : i \in 1..Len(ManualKeys)} -> ScoreVals]

\* Every auto assignment beside full manual scores; every manual
\* assignment beside no and full auto scores.
InitTotal ==
    /\ page = "kpi_total" /\ pc = "start"
    /\ \/ agent_scores \in AutoAssignments
          /\ manual_scores = AllFour(ManualKeys)
       \/ agent_scores \in {NoEntries, AllFour(AutoKeys)}
          /\ manual_scores \in ManualAssignments
    /\ date = 0 /\ week_info = <<0, 0>> /\ daily = <<>> /\ team_daily = <<>>
    /\ channel_team_map = EmptyMap /\ weekly = Returned(<<>>)
    /\ weekly_team = Returned(<<>>) /\ kpi_args = WeekArgs /\ scores = NoScores
    /\ totals = NoTotals
    /\ overall_df = <<>> /\ team_actual = <<>> /\ team_agg = <<>>
    /\ delta_args = <<>> /\ delta = "" /\ selection = <<>> /\ wow = <<>>
    /\ RestIdle({})

\* pages/24, individual view: auto_weighted_total, manual_weighted_total, grand_total
RenderTotals ==
    /\ page = "kpi_total" /\ pc = "start"
    /\ totals' \in
           {LET auto   == calc_auto_weighted(agent_scores, h[1])
                manual == calc_manual_weighted(manual_scores, h[2])
            IN  [auto |-> auto, manual |-> manual,
                 grand |-> GrandTotal(auto, manual, h[3])] :
               h \in BOOLEAN \X BOOLEAN \X BOOLEAN}
    /\ pc' = "done"
    /\ UNCHANGED <<page, date, week_info, daily, team_daily, channel_team_map, weekly,
                   weekly_team, kpi_args, scores, agent_scores, manual_scores,
                   teamVars, wowVars, restVars>>

NextTotal == RenderTotals

SpecTotal == InitTotal /\ [][NextTotal]_vars

-----------------------------------------------------------------------------
(* arrow_delta (pages/28_Weekly_KPI.py, pages/29_Weekly_Team_KPI.py): the   *)
(* week-over-week cell.  The HTML is kept as its colour, arrow and text.   *)

RatSub(a, b) == Rat(a.n * b.d - b.n * a.d, a.d * b.d)

\* abs(x)
RatAbs(x) == [n |-> Abs(x.n), d |-> x.d]

DeltaCell(color, arrow, text, pct, shown) ==
    [color |-> color, arrow |-> arrow, text |-> text, pct |-> pct, shown |-> shown]

\* A slip: the change taken over the signed previous value.
Pct_signed(curr, prev) == RatMul(RatDiv(RatSub(curr, prev), prev), RatInt(100))

\* pct = (curr - prev) / abs(prev) * 100
Pct(curr, prev) == RatMul(RatDiv(RatSub(curr, prev), RatAbs(prev)), RatInt(100))

\* A slip: the direction read without higher_is_better.
IsGood_ignoresDirection(pct, higher_is_better) == RatGt(pct, Zero)

\* is_good = (pct > 0) == higher_is_better
IsGood(pct, higher_is_better) == RatGt(pct, Zero) = higher_is_better

\* abs(pct) < 0.1
IsFlat(pct) == RatLt(RatAbs(pct), Rat(1, 10))

\* arrow_delta(curr, prev, higher_is_better); the percent is printed with one
\* decimal (f'{abs(pct):.1f}%').
arrow_delta(curr, prev, higher_is_better, half_up) ==
    IF prev = Zero /\ curr = Zero THEN DeltaCell("grey", "dash", "dash", Zero, Zero)
    ELSE IF prev = Zero THEN DeltaCell("green", "up", "new", Zero, Zero)
    ELSE LET pct == Pct(curr, prev)
         IN  IF IsFlat(pct) THEN DeltaCell("grey", "right", "0%", pct, Zero)
             ELSE DeltaCell(IF IsGood(pct, higher_is_better) THEN "green" ELSE "red",
                            IF RatGt(pct, Zero) THEN "up" ELSE "down",
                            "pct", pct, Round(RatAbs(pct), 10, half_up))

\* Metric values in hundredths: 0, 0.20, 10.00, 1000.00 and a negative amount.
DeltaPrevs == {0, 20, 1000, 100000, -1000}

\* Around each previous value: equal, a quarter off, a fifth off, and one
\* hundredth to one thousandth of a percent off.
DeltaCurrs ==
    {0, 1, 15, 20, 25, 800, 999, 1000, 1001, 1200, 99900, 99901, 99999, 100000,
     100001, 100099, 100100, 100101, -1200, -1000, -800}

\* The higher_is_better flag each call site passes with its metric: the weekly
\* history table and wow_table of pages/28, the All Teams table of pages/29.
HigherIsBetter ==
    [cpa |-> FALSE, roas |-> TRUE, cvr |-> TRUE, ctr |-> TRUE, weighted |-> TRUE,
     cost |-> FALSE, registrations |-> TRUE, first_recharge |-> TRUE,
     total_amount |-> TRUE, cpr |-> FALSE, cpfd |-> FALSE, arppu |-> TRUE]

DeltaArgs ==
    {[metric |-> m, curr |-> Rat(c, 100), prev |-> Rat(p, 100),
      higher_is_better |-> HigherIsBetter[m]] :
        m \in DOMAIN HigherIsBetter, c \in DeltaCurrs, p \in DeltaPrevs}

InitDelta ==
    /\ page = "arrow_delta" /\ pc = "start"
    /\ delta_args \in DeltaArgs
    /\ Idle({"delta"})

\* a = arrow_delta(val, prev_r[metric], hib)
ArrowDelta ==
    /\ page = "arrow_delta" /\ pc = "start"
    /\ \E half_up \in BOOLEAN :
           delta' = arrow_delta(delta_args.curr, delta_args.prev,
                                delta_args.higher_is_better, half_up)
    /\ pc' = "done"
    /\ UNCHANGED <<page, date, week_info, daily, team_daily, channel_team_map, weekly,
                   weekly_team, kpi_args, scores, agent_scores, manual_scores, totals,
                   teamVars, delta_args, selection, wow, restVars>>

NextDelta == ArrowDelta

SpecDelta == InitDelta /\ [][NextDelta]_vars

-----------------------------------------------------------------------------
(* render_content with one agent selected (pages/28_Weekly_KPI.py).        *)

\* prev_week = None
NoWeek == <<>>

\* st.metric(..., delta=None), and a history cell that gets no arrow.
NoDelta == DeltaCell("", "", "none", Zero, Zero)

\* sorted(weekly['week_key'].unique())
WeeksSorted(rows) ==
    LET ks == SortKeys({<<"All", rows[i].week_key>> : i \in 1..Len(rows)})
    IN  [i \in 1..Len(ks) |-> ks[i][2]]

\* week_labels[wk]: label and day count of the first row of the week, the
\* warning tag when that row has days < 7.
WeekLabel(rows, wk) ==
    LET subset == SelectSeq(rows, LAMBDA r : r.week_key = wk)[1]
    IN  [week_key |-> wk, week_label |-> subset.week_label,
         days |-> subset.days, tag |-> subset.days < 7]

\* The delta of a metric card: (curr - prev) / prev * 100 to one decimal when
\* there is a previous row whose value is positive, else None.  prev_row is a
\* frame of no row (None) or one.
CardDelta(curr, prev_row, metric, half_up) ==
    IF prev_row # <<>> /\ RatGt(prev_row[1][metric], Zero)
    THEN LET pct == RatMul(RatDiv(RatSub(curr[metric], prev_row[1][metric]),
                                  prev_row[1][metric]), RatInt(100))
         IN  DeltaCell("", "", "pct", pct, Round(pct, 10, half_up))
    ELSE NoDelta

\* One row of the Weekly History table: prev_r is the row of the iteration
\* before, whatever its week.
HistoryRow(agent_weeks, i, half_up) ==
    LET r == agent_weeks[i]
        Cell(metric) ==
            IF i > 1 /\ RatGt(agent_weeks[i - 1][metric], Zero)
            THEN arrow_delta(r[metric], agent_weeks[i - 1][metric],
                             HigherIsBetter[metric], half_up)
            ELSE NoDelta
    IN  [week_key |-> r.week_key, week_label |-> r.week_label, days |-> r.days,
         incomplete |-> r.days < 7,
         prev_r |-> IF i > 1 THEN agent_weeks[i - 1].week_key ELSE NoWeek,
         cpa |-> Cell("cpa"), roas |-> Cell("roas"),
         cvr |-> Cell("cvr"), ctr |-> Cell("ctr")]

\* What a pass of the page shows.
Shown(status, sel_week, prev_week, week_labels, curr, prev_row, cards, history) ==
    [status |-> status, sel_week |-> sel_week, prev_week |-> prev_week,
     week_labels |-> week_labels, curr |-> curr, prev_row |-> prev_row,
     cards |-> cards, history |-> history]

Stopped(status) == Shown(status, NoWeek, NoWeek, <<>>, <<>>, <<>>, <<>>, <<>>)

\* render_content from the built frame on: the week selector, the metric cards
\* and the Weekly History table of the selected agent.  sel_wk_idx counts
\* from 1.
render_content(built, selected, sel_wk_idx, half_up) ==
    IF built.error # "" THEN Stopped(built.error)
    ELSE IF built.rows = <<>> THEN Stopped("No daily data available")
    ELSE LET weeks_sorted == WeeksSorted(built.rows)
             week_labels  == [i \in 1..Len(weeks_sorted) |->
                                  WeekLabel(built.rows, weeks_sorted[i])]
             sel_week     == weeks_sorted[sel_wk_idx]
             prev_week    == IF sel_wk_idx > 1 THEN weeks_sorted[sel_wk_idx - 1]
                             ELSE NoWeek
             agent_weeks  == SelectSeq(built.rows, LAMBDA r : r.agent = selected)
             curr         == SelectSeq(agent_weeks, LAMBDA r : r.week_key = sel_week)
             prev_row     == IF prev_week # NoWeek
                             THEN SelectSeq(agent_weeks,
                                            LAMBDA r : r.week_key = prev_week)
                             ELSE <<>>
         IN  IF agent_weeks = <<>> THEN Stopped("No weekly data")
             ELSE IF curr = <<>> THEN Stopped("No data in selected week")
             ELSE Shown("rendered", sel_week, prev_week, week_labels, curr, prev_row,
                        [m \in {"cpa", "roas", "cvr", "ctr", "auto_weighted"} |->
                             CardDelta(curr[1], prev_row, m, half_up)],
                        [i \in 1..Len(agent_weeks) |->
                             HistoryRow(agent_weeks, i, half_up)])

\* Tue 2025-12-30 and Mon 2026-01-05 open and close one Tue-Mon week; Tue
\* 2026-01-06 and Tue 2026-01-13 open the two weeks after it.
WowDates == {729, 735, 736, 743}

\* (cost, register, ftd, impressions, clicks, arppu): two days that differ in
\* cost, and a day without first deposits or clicks.
WowMetrics == {<<1000, 2, 1, 100, 3, 5000>>, <<1200, 2, 1, 100, 3, 5000>>,
               <<500, 2, 0, 100, 0, 0>>}

\* Agent X on any of the days with any of the metrics, agent Y beside it.
WowRows ==
    {AgentRow("X", d, m[1], m[2], m[3], m[4], m[5], m[6]) :
         d \in WowDates, m \in WowMetrics}
    \cup {AgentRow("Y", d, 1000, 2, 1, 100, 3, 5000) : d \in WowDates}

WowFrames == SeqsUpTo(WowRows, MaxRows)

\* The agent and the week picked in the two select boxes.
Selections(daily_df) ==
    LET weeks == {RowWeekKey(daily_df[i]) : i \in 1..Len(daily_df)}
    IN  {[selected |-> a, sel_wk_idx |-> i] :
            a \in {"X", "Y"},
            i \in 1..(IF weeks = {} THEN 1 ELSE Cardinality(weeks))}

InitRender ==
    /\ page = "weekly_kpi" /\ pc = "start"
    /\ daily \in WowFrames
    /\ selection \in Selections(daily)
    /\ Idle({"daily", "selection"})

\* pages/28: one pass of render_content.
RenderContent ==
    /\ page = "weekly_kpi" /\ pc = "start" /\ selection # <<>>
    /\ \E order \in DateSortedOrders(DropNaT(daily)), half_up \in BOOLEAN :
           LET built == build_weekly_agent_df(daily, order, half_up)
           IN  /\ weekly' = built
               /\ wow' = render_content(built, selection.selected,
                                        selection.sel_wk_idx, half_up)
    /\ pc' = "rendered"
    /\ UNCHANGED <<page, date, week_info, daily, team_daily, channel_team_map,
                   weekly_team, kpi_args, scores, agent_scores, manual_scores, totals,
                   teamVars, delta_args, delta, selection, restVars>>

NextWow == RenderContent

SpecWow == InitRender /\ [][NextWow]_vars

-----------------------------------------------------------------------------
(* The aggregators on frames that lack a numeric column.                   *)

\* The longest daily frame of these passes.
MaxColumnRows == 2

\* No column dropped.
NoDrop == "none"

ColumnAgentRows ==
    {AgentRow("X", 729, m[1], m[2], m[3], m[4], m[5], m[6]) : m \in SumMetrics}
    \cup {AgentRow("Y", 729, 1000, 2, 1, 100, 3, 5000)}

\* The daily sheet as loaded, complete or without one of the numeric columns.
ColumnAgentFrames ==
    {DropColumn(df, c) : df \in SeqsUpTo(ColumnAgentRows, MaxColumnRows),
                          c \in AgentNumericColumns \cup {NoDrop}}

ColumnTeamRows ==
    {TeamRow(c, 729, m[1], m[2], m[3], m[4]) :
         c \in {"FB-FB-FB-DEERPROMO07", "FB-FB-FB-DEERPROMO99"}, m \in TeamMetrics}

ColumnTeamFrames ==
    {DropColumn(df, c) : df \in SeqsUpTo(ColumnTeamRows, MaxColumnRows),
                          c \in TeamNumericColumns \cup {NoDrop}}

InitColumns ==
    \/ /\ page = "weekly_kpi" /\ pc = "start"
       /\ daily \in ColumnAgentFrames
       /\ Idle({"daily"})
    \/ /\ page = "kpi_monitoring" /\ pc = "start"
       /\ daily \in ColumnAgentFrames
       /\ kpi_args = WeekArgs
       /\ Idle({"daily", "kpi"})
    \/ /\ page = "weekly_team_kpi" /\ pc = "start"
       /\ team_daily \in ColumnTeamFrames
       /\ channel_team_map \in TeamMaps
       /\ Idle({"team"})

SpecColumns == InitColumns /\ [][Next]_vars

-----------------------------------------------------------------------------
(* The aggregators on frames with unparseable dates.                       *)

\* Daily rows whose date parsed (Tue 2025-12-30, Tue 2026-01-06) or did not.
NaTAgentRows ==
    {AgentRow(a, d, m[1], m[2], m[3], m[4], m[5], m[6]) :
         a \in {"X", "Y"}, d \in {NaT, 729, 736},
         m \in {<<1000, 2, 1, 100, 3, 5000>>, <<500, 2, 0, 100, 0, 0>>}}

NaTTeamRows ==
    {TeamRow(c, d, m[1], m[2], m[3], m[4]) :
         c \in {"FB-FB-FB-DEERPROMO07", "FB-FB-FB-DEERPROMO12"},
         d \in {NaT, 729, 736}, m \in TeamMetrics}

InitDates ==
    \/ /\ page = "weekly_kpi" /\ pc = "start"
       /\ daily \in SeqsUpTo(NaTAgentRows, MaxRows)
       /\ Idle({"daily"})
    \/ /\ page = "kpi_monitoring" /\ pc = "start"
       /\ daily \in SeqsUpTo(NaTAgentRows, MaxRows)
       /\ kpi_args = WeekArgs
       /\ Idle({"daily", "kpi"})
    \/ /\ page = "weekly_team_kpi" /\ pc = "start"
       /\ team_daily \in SeqsUpTo(NaTTeamRows, MaxRows)
       /\ channel_team_map \in TeamMaps
       /\ Idle({"team"})

SpecDates == InitDates /\ [][Next]_vars

-----------------------------------------------------------------------------
(* calculate_kpi_from_daily on the counts and the fetched reporting data.  *)

\* The largest count of created accounts or published ads.
MaxCount == 25

\* resp.json() of the reporting service, the agent's entry: whatever integers
\* the service sent as 'score' and 'avg_minute'.
FetchedReporting ==
    {NoReporting} \cup
    {[present |-> TRUE, score |-> s, avg_minute |-> a] :
        s \in -1..5, a \in {0, 14, 15, 24, 25, 34, 35, 60}}

ReportingArgs ==
    {[WeekArgs EXCEPT !.acct_total = a, !.ab_published = b] :
        a \in 0..MaxCount, b \in 0..MaxCount}
    \cup {[WeekArgs EXCEPT !.reporting = r] : r \in FetchedReporting}

InitReporting ==
    /\ page = "kpi_monitoring" /\ pc = "start"
    /\ daily \in {<<>>, <<AgentRow("X", 729, 1000, 2, 1, 100, 3, 5000)>>}
    /\ kpi_args \in ReportingArgs
    /\ Idle({"daily", "kpi"})

SpecReporting == InitReporting /\ [][NextScore]_vars

-----------------------------------------------------------------------------
(* pages/29 render_content step by step, beside a concurrent refresh.      *)

\* The most refreshes beside one pass.
MaxRefresh == 2

\* PER TEAM ACTUAL as the sheet may read at different times: codes 07 and 12
\* with Team A; 07 with Team A and 12 with Team B; 07 with Team B alone; empty.
ActualVersions ==
    {<<ActualRow("Team A", <<"0", "7", " ", "1", "2">>)>>,
     <<ActualRow("Team A", <<"0", "7">>), ActualRow("Team B", <<"1", "2">>)>>,
     <<ActualRow("Team B", <<"0", "7">>)>>,
     <<>>}

PassRows ==
    {TeamRow(c, 729, m[1], m[2], m[3], m[4]) :
         c \in {"FB-FB-FB-DEERPROMO07", "FB-FB-FB-DEERPROMO12"}, m \in TeamMetrics}

\* What load_team_channel_data() hands out; refreshes counts the rebuilds.
Loaded(daily_df, team_actual_df, refreshes) ==
    [daily |-> daily_df, team_actual |-> team_actual_df, refreshes |-> refreshes]

\* A slip: the row resolved against the mapping of the data cached now.
Resolve_shared(map, shared, channel) ==
    LET now == BuildChannelTeamMap(EmptyMap, shared.team_actual)
    IN  IF channel \in DOMAIN now THEN now[channel] ELSE NaN

\* df['channel'].map(channel_team_map), one row: the pass's own dict.
Resolve(map, shared, channel) == IF channel \in DOMAIN map THEN map[channel] ELSE NaN

\* build_weekly_team_df from the team filter on, given the mapped frame.
AggregateTeams(df1) ==
    LET d    == RealTeamRows(df1)
        keys == {<<d[i].team, RowWeekKey(d[i])>> : i \in 1..Len(d)}
        ks   == SortKeys(keys)
    IN  IF d = <<>> THEN Returned(<<>>)
        ELSE Returned([i \in 1..Len(ks) |-> WeeklyTeamRow(TeamAgg(d, ks[i]))])

InitPass ==
    /\ page = "weekly_team_kpi" /\ pc = "load"
    /\ \E d \in SeqsUpTo(PassRows, MaxRows), a \in ActualVersions :
           store = Loaded(d, a, 0)
    /\ team_daily = <<>> /\ team_actual = <<>> /\ channel_team_map = EmptyMap
    /\ pass_df = <<>>
    /\ Idle({"team", "actual", "store"})

\* Another session's Refresh: the cached data is rebuilt from the sheet.
Refresh ==
    /\ page = "weekly_team_kpi" /\ pc \in {"load", "loaded", "mapping", "mapped"}
    /\ store.refreshes < MaxRefresh
    /\ \E a \in ActualVersions \ {store.team_actual} :
           store' = Loaded(store.daily, a, store.refreshes + 1)
    /\ UNCHANGED <<page, pc, date, week_info, daily, team_daily, channel_team_map,
                   weekly, weekly_team, kpi_args, scores, agent_scores, manual_scores,
                   totals, teamVars, wowVars, pass_df, kpiPageVars, reporterVars>>

\* data = load_team_channel_data(); daily_df, team_actual_df = ...
LoadTeamChannelData ==
    /\ page = "weekly_team_kpi" /\ pc = "load"
    /\ team_daily' = store.daily
    /\ team_actual' = store.team_actual
    /\ pc' = "loaded"
    /\ UNCHANGED <<page, date, week_info, daily, channel_team_map, weekly, weekly_team,
                   kpi_args, scores, agent_scores, manual_scores, totals,
                   overall_df, team_agg, wowVars, restVars>>

\* The mapping loop, then the start of build_weekly_team_df: the copy of the
\* frame, the date drop, and the KeyError when no mapping assigns 'team'.
StartBuild ==
    /\ page = "weekly_team_kpi" /\ pc = "loaded"
    /\ LET map == BuildChannelTeamMap(EmptyMap, team_actual)
       IN  /\ channel_team_map' = map
           /\ IF team_daily = <<>>
              THEN /\ weekly_team' = Returned(<<>>) /\ pc' = "done"
                   /\ pass_df' = pass_df
              ELSE IF DOMAIN map = {}
              THEN /\ weekly_team' = Raised("KeyError") /\ pc' = "done"
                   /\ pass_df' = pass_df
              ELSE /\ weekly_team' = weekly_team /\ pc' = "mapping"
                   /\ pass_df' = [i \in 1..Len(DropNaT(team_daily)) |->
                                     [row |-> DropNaT(team_daily)[i], seen |-> -1]]
    /\ UNCHANGED <<page, date, week_info, daily, team_daily, weekly,
                   kpi_args, scores, agent_scores, manual_scores, totals,
                   teamVars, wowVars, store, kpiPageVars, reporterVars>>

\* df['team'] = df['channel'].map(channel_team_map), the next row.  seen notes
\* how many refreshes had happened by then.
MapRow ==
    /\ page = "weekly_team_kpi" /\ pc = "mapping"
    /\ \E i \in 1..Len(pass_df) :
           /\ pass_df[i].seen = -1
           /\ \A j \in 1..(i - 1) : pass_df[j].seen # -1
           /\ pass_df' = [pass_df EXCEPT
                  ![i] = [row |-> [pass_df[i].row EXCEPT
                                      !.team = Resolve(channel_team_map, store,
                                                       pass_df[i].row.channel)],
                          seen |-> store.refreshes]]
           /\ pc' = IF i = Len(pass_df) THEN "mapped" ELSE "mapping"
    /\ UNCHANGED <<page, date, week_info, daily, team_daily, channel_team_map,
                   weekly, weekly_team, kpi_args, scores, agent_scores, manual_scores,
                   totals, teamVars, wowVars, store, kpiPageVars, reporterVars>>

\* The team filter, the grouping and the derived metrics.
AggregatePass ==
    /\ page = "weekly_team_kpi" /\ pc = "mapped"
    /\ weekly_team' = AggregateTeams([i \in 1..Len(pass_df) |-> pass_df[i].row])
    /\ pc' = "done"
    /\ UNCHANGED <<page, date, week_info, daily, team_daily, channel_team_map,
                   weekly, kpi_args, scores, agent_scores, manual_scores,
                   totals, teamVars, wowVars, restVars>>

NextPass == Refresh \/ LoadTeamChannelData \/ StartBuild \/ MapRow \/ AggregatePass

SpecPass == InitPass /\ [][NextPass]_vars

-----------------------------------------------------------------------------
(* build_weekly_team_df on mappings that name the team 'All'.              *)

ConserveRows ==
    {TeamRow(c, d, m[1], m[2], m[3], m[4]) :
         c \in Channels, d \in {NaT, 729, 736}, m \in TeamMetrics}

\* Mappings of codes 07 and 12 (99 stays unmapped): to one team, to two, and
\* with 12 under a PER TEAM ACTUAL row whose team reads 'All'.
ConserveMaps ==
    {[c \in {"FB-FB-FB-DEERPROMO07", "FB-FB-FB-DEERPROMO12"} |-> t[c]] :
        t \in {[c \in {"FB-FB-FB-DEERPROMO07", "FB-FB-FB-DEERPROMO12"} |-> "Team A"],
               [c \in {"FB-FB-FB-DEERPROMO07", "FB-FB-FB-DEERPROMO12"} |->
                   IF c = "FB-FB-FB-DEERPROMO07" THEN "Team A" ELSE "Team B"],
               [c \in {"FB-FB-FB-DEERPROMO07", "FB-FB-FB-DEERPROMO12"} |->
                   IF c = "FB-FB-FB-DEERPROMO07" THEN "Team A" ELSE "All"]}}

InitConserve ==
    /\ page = "weekly_team_kpi" /\ pc = "start"
    /\ team_daily \in SeqsUpTo(ConserveRows, MaxRows)
    /\ channel_team_map \in ConserveMaps
    /\ Idle({"team"})

NextConserve == BuildWeeklyTeamDf

SpecConserve == InitConserve /\ [][NextConserve]_vars

-----------------------------------------------------------------------------
(* pages/24 render_content pass by pass, for one agent's manual scores.    *)
(* A select box returns the value the operator last picked in it; the      *)
(* script stores it in the session after the box is drawn.                 *)

\* auto_wt / manual_wt / total_wt, and the individual view's three totals.
Totals(a_scores, session, h) ==
    LET auto   == calc_auto_weighted(a_scores, h[1])
        manual == calc_manual_weighted(session, h[2])
    IN  [auto |-> auto, manual |-> manual, grand |-> GrandTotal(auto, manual, h[3])]

InitKpiPage ==
    /\ page = "kpi_monitoring" /\ pc = "rerun"
    /\ view \in {"All Agents", "X"}
    /\ agent_scores = AllFour(AutoKeys)
    /\ manual_scores \in ManualAssignments
    /\ widgets = manual_scores
    /\ date = 0 /\ week_info = <<0, 0>> /\ daily = <<>> /\ team_daily = <<>>
    /\ channel_team_map = EmptyMap /\ weekly = Returned(<<>>)
    /\ weekly_team = Returned(<<>>) /\ kpi_args = WeekArgs /\ scores = NoScores
    /\ totals = NoTotals
    /\ overall_df = <<>> /\ team_actual = <<>> /\ team_agg = <<>>
    /\ delta_args = <<>> /\ delta = "" /\ selection = <<>> /\ wow = <<>>
    /\ RestIdle({"widgets"})

\* The operator picks another value in one manual-score select box; the
\* script runs again.
SelectManualScore ==
    /\ page = "kpi_monitoring" /\ pc = "shown"
    /\ \E k \in DOMAIN widgets, v \in ScoreVals :
           /\ v # widgets[k]
           /\ widgets' = [widgets EXCEPT ![k] = v]
    /\ pc' = "rerun"
    /\ UNCHANGED <<page, date, week_info, daily, team_daily, channel_team_map, weekly,
                   weekly_team, kpi_args, scores, agent_scores, manual_scores, totals,
                   teamVars, wowVars, store, pass_df, view, reporterVars>>

\* A pass with "All Agents" selected: the summary rows (Auto, Manual, Total)
\* are built first, the select boxes of the Manual KPI Scoring section are
\* drawn and stored after.
RenderAllAgents ==
    /\ page = "kpi_monitoring" /\ pc = "rerun" /\ view = "All Agents"
    /\ totals' \in {Totals(agent_scores, manual_scores, h) :
                       h \in BOOLEAN \X BOOLEAN \X BOOLEAN}
    /\ manual_scores' = widgets
    /\ pc' = "shown"
    /\ UNCHANGED <<page, date, week_info, daily, team_daily, channel_team_map, weekly,
                   weekly_team, kpi_args, scores, agent_scores,
                   teamVars, wowVars, restVars>>

\* A pass with the agent selected: the select boxes are drawn and stored
\* first, the totals of the KPI table are computed after.
RenderAgent ==
    /\ page = "kpi_monitoring" /\ pc = "rerun" /\ view # "All Agents"
    /\ manual_scores' = widgets
    /\ totals' \in {Totals(agent_scores, manual_scores', h) :
                       h \in BOOLEAN \X BOOLEAN \X BOOLEAN}
    /\ pc' = "shown"
    /\ UNCHANGED <<page, date, week_info, daily, team_daily, channel_team_map, weekly,
                   weekly_team, kpi_args, scores, agent_scores,
                   teamVars, wowVars, restVars>>

NextKpiPage == SelectManualScore \/ RenderAllAgents \/ RenderAgent

SpecKpiPage == InitKpiPage /\ [][NextKpiPage]_vars


-----------------------------------------------------------------------------
(* realtime_reporter.py.  A run of send_realtime_report loads the latest   *)
(* day of the P-tab data, compares it with the report saved by an earlier  *)
(* run, sends the message and saves the new report.  The saved file, the   *)
(* comparison and the outcome of the run are the state.  The file's        *)
(* 'timestamp' and 'team_totals' entries are never read back and are left  *)
(* out.  config.EXCLUDED_PERSONS is taken empty (the filter is skipped).   *)

MaxReportRows == 2

MonthLen(y, m) ==
    IF m = 2 THEN (IF IsLeap(y) THEN 29 ELSE 28)
    ELSE IF m \in {4, 6, 9, 11} THEN 30 ELSE 31

\* (month, day) of the n-th day (from 0) of year y, counting from month m.
RECURSIVE MonthDayFrom(_, _, _)
MonthDayFrom(n, y, m) ==
    IF n < MonthLen(y, m) THEN <<m, n + 1>>
    ELSE MonthDayFrom(n - MonthLen(y, m), y, m + 1)

\* str(datetime.date): "YYYY-MM-DD" as character codes.
StrDate(d) ==
    LET y == YearOf(d)
        md == MonthDayFrom(d - YearStart(y), y, 1)
    IN  <<Digit(y \div 1000), Digit((y \div 100) % 10), Digit((y \div 10) % 10),
          Digit(y % 10), 45, Digit(md[1] \div 10), Digit(md[1] % 10), 45,
          Digit(md[2] \div 10), Digit(md[2] % 10)>>

\* df[col].sum() over the rows of one agent.
RECURSIVE AgentSum(_, _, _)
AgentSum(df, agent, col) ==
    IF df = <<>> THEN 0
    ELSE (IF Head(df).agent = agent THEN Head(df)[col] ELSE 0)
         + AgentSum(Tail(df), agent, col)

\* current_data.groupby('agent').agg({cost, register, ftd: 'sum'}).to_dict('index')
GroupByAgent(df) ==
    [a \in {df[i].agent : i \in DOMAIN df} |->
        [cost |-> AgentSum(df, a, "cost"), register |-> AgentSum(df, a, "register"),
         ftd |-> AgentSum(df, a, "ftd")]]

\* The file does not exist, or json.load fails on it.
NoFile == [kind |-> "none", date |-> <<>>, agents |-> <<>>]

CorruptFile == [kind |-> "corrupt", date |-> <<>>, agents |-> <<>>]

JsonFile(report_data) ==
    [kind |-> "json", date |-> report_data.date, agents |-> report_data.agents]

\* (None, None), and (latest_data, latest_date).
NoData == [data |-> <<>>, date |-> NaT]

RECURSIVE MaxDate(_)
MaxDate(df) ==
    IF df = <<>> THEN NaT
    ELSE LET rest == MaxDate(Tail(df))
         IN  IF Head(df).date > rest THEN Head(df).date ELSE rest

\* get_latest_date_data(): the rows of the latest date; (None, None) when the
\* load fails or there is no daily data.
get_latest_date_data(daily_df, load_ok) ==
    IF ~load_ok \/ daily_df = <<>> THEN NoData
    ELSE LET latest_date == MaxDate(daily_df)
         IN  [data |-> SelectSeq(daily_df, LAMBDA r : r.date = latest_date),
              date |-> latest_date]

\* load_previous_report(): the saved dictionary, or None.
load_previous_report(file) ==
    IF file.kind = "json" THEN [none |-> FALSE, date |-> file.date, agents |-> file.agents]
    ELSE [none |-> TRUE, date |-> <<>>, agents |-> <<>>]

\* changes is None.
NoChanges == [none |-> TRUE, by |-> <<>>]

\* prev_stats.get(key, 0) of prev_agents.get(agent_name, {}).
PrevStat(prev_agents, agent_name, key) ==
    IF agent_name \in DOMAIN prev_agents THEN prev_agents[agent_name][key] ELSE 0

\* The loop of compare_with_previous over the agents of the current data.
ChangesOf(current_data, previous_data) ==
    LET current_by_agent == GroupByAgent(current_data)
    IN  [none |-> FALSE,
         by |-> [a \in DOMAIN current_by_agent |->
                   LET spend_diff == current_by_agent[a].cost
                                     - PrevStat(previous_data.agents, a, "spend")
                       reg_diff == current_by_agent[a].register
                                   - PrevStat(previous_data.agents, a, "register")
                       ftd_diff == current_by_agent[a].ftd
                                   - PrevStat(previous_data.agents, a, "ftd")
                   IN  [spend_diff |-> spend_diff, reg_diff |-> reg_diff,
                        ftd_diff |-> ftd_diff,
                        has_change |-> (spend_diff # 0 \/ reg_diff # 0 \/ ftd_diff # 0)]]]

\* A slip: the comparison without the fresh-day check.
compare_with_previous_anyDate(current_data, previous_data, current_date) ==
    IF previous_data.none THEN NoChanges
    ELSE ChangesOf(current_data, previous_data)

\* compare_with_previous(current_data, previous_data, current_date)
compare_with_previous(current_data, previous_data, current_date) ==
    IF previous_data.none THEN NoChanges
    ELSE IF current_date # NaT /\ previous_data.date # <<>>
            /\ StrDate(current_date) # previous_data.date
         THEN NoChanges
         ELSE ChangesOf(current_data, previous_data)

\* detect_no_change_agents(changes)
detect_no_change_agents(changes) ==
    IF changes.none THEN {}
    ELSE {a \in DOMAIN changes.by : ~changes.by[a].has_change}

\* generate_text_summary: the agents whose line carries the differences.
ShownDifferences(current_data, changes) ==
    IF changes.none \/ DOMAIN changes.by = {} THEN {}
    ELSE {a \in DOMAIN GroupByAgent(current_data) : a \in DOMAIN changes.by}

\* prepare_report_data(current_data, latest_date)
prepare_report_data(current_data, latest_date) ==
    LET agent_data == GroupByAgent(current_data)
    IN  [date |-> StrDate(latest_date),
         agents |-> [a \in DOMAIN agent_data |->
                        [spend |-> agent_data[a].cost, register |-> agent_data[a].register,
                         ftd |-> agent_data[a].ftd]]]

\* save_current_report(report_data): the file afterwards.  An exception is
\* caught and printed: open() failed (the file is as before) or json.dump
\* failed after open() truncated the file (the file no longer loads).
save_current_report(file, report_data, save) ==
    IF save = "written" THEN JsonFile(report_data)
    ELSE IF save = "open failed" THEN file
    ELSE CorruptFile

SaveOutcomes == {"written", "open failed", "dump failed"}

\* Where a run raises: nowhere, in the load, in the comparison, in the
\* capture of the screenshot, in a Telegram send.
Failures == {"", "load", "compare", "capture", "send"}

NoRun ==
    [result |-> FALSE, ran |-> FALSE, compared |-> FALSE, date |-> NaT, by_agent |-> <<>>,
     prev_date |-> <<>>, changes |-> NoChanges, no_change_agents |-> {}, shown |-> {},
     save |-> ""]

\* The outcome of a run that stops before the comparison is made.
Stopped_early(file) ==
    [result |-> FALSE, file |-> file, compared |-> FALSE, changes |-> NoChanges,
     no_change_agents |-> {}, shown |-> {}, save |-> "", prev_date |-> <<>>]

\* A slip: the report is saved before the screenshot and the message are sent.
send_realtime_report_saveFirst(daily_df, file, alert, fails, save) ==
    LET got == get_latest_date_data(daily_df, fails # "load")
        previous_data == load_previous_report(file)
        changes == compare_with_previous(got.data, previous_data, got.date)
        saved == save_current_report(file, prepare_report_data(got.data, got.date), save)
        made == [result |-> FALSE, file |-> saved, compared |-> TRUE, changes |-> changes,
                 no_change_agents |-> IF alert THEN detect_no_change_agents(changes) ELSE {},
                 shown |-> ShownDifferences(got.data, changes), save |-> save,
                 prev_date |-> previous_data.date]
    IN  IF got.data = <<>> THEN Stopped_early(file)
        ELSE IF fails = "compare" THEN Stopped_early(file)
        ELSE IF fails \in {"capture", "send"} THEN made
        ELSE [made EXCEPT !.result = TRUE]

\* send_realtime_report(): the value returned, the file afterwards and what
\* the run computed on the way.
send_realtime_report(daily_df, file, alert, fails, save) ==
    LET got == get_latest_date_data(daily_df, fails # "load")
        previous_data == load_previous_report(file)
        changes == compare_with_previous(got.data, previous_data, got.date)
        made == [result |-> FALSE, file |-> file, compared |-> TRUE, changes |-> changes,
                 no_change_agents |-> IF alert THEN detect_no_change_agents(changes) ELSE {},
                 shown |-> ShownDifferences(got.data, changes), save |-> "",
                 prev_date |-> previous_data.date]
    IN  IF got.data = <<>> THEN Stopped_early(file)
        ELSE IF fails = "compare" THEN Stopped_early(file)
        ELSE IF fails \in {"capture", "send"} THEN made
        ELSE [made EXCEPT !.result = TRUE, !.save = save,
                          !.file = save_current_report(
                                       file, prepare_report_data(got.data, got.date), save)]

ReportDates == {736, 737}

ReportFigures == {<<0, 0, 0>>, <<10000, 1, 0>>}

\* Agent A on both days with either figures; agent B joins on the second day.
ReportRows == {[agent |-> a, date |-> d, cost |-> f[1], register |-> f[2], ftd |-> f[3]] :
                 a \in {"A"}, d \in ReportDates, f \in ReportFigures}
              \cup {[agent |-> "B", date |-> 737, cost |-> 10000, register |-> 1, ftd |-> 0]}

ReportFrames == SeqsUpTo(ReportRows, MaxReportRows)

InitReporter ==
    /\ page = "realtime_reporter" /\ pc = "run"
    /\ last_report = NoFile
    /\ report_run = NoRun
    /\ no_change_alert \in BOOLEAN
    /\ date = 0 /\ week_info = <<0, 0>> /\ daily = <<>> /\ team_daily = <<>>
    /\ channel_team_map = EmptyMap /\ weekly = Returned(<<>>)
    /\ weekly_team = Returned(<<>>) /\ kpi_args = WeekArgs /\ scores = NoScores
    /\ agent_scores = <<>> /\ manual_scores = <<>> /\ totals = NoTotals
    /\ overall_df = <<>> /\ team_actual = <<>> /\ team_agg = <<>>
    /\ delta_args = <<>> /\ delta = "" /\ selection = <<>> /\ wow = <<>>
    /\ RestIdle({"reporter"})

\* One run of send_realtime_report on the daily data the sheet holds then.
SendRealtimeReport ==
    /\ page = "realtime_reporter"
    /\ \E daily_df \in ReportFrames, fails \in Failures :
       \E save \in (IF fails = "" THEN SaveOutcomes ELSE {""}) :
         LET out == send_realtime_report(daily_df, last_report, no_change_alert,
                                         fails, save)
             got == get_latest_date_data(daily_df, fails # "load")
             by_agent == GroupByAgent(got.data)
         IN  /\ last_report' = out.file
             /\ report_run' =
                  [result |-> out.result, ran |-> TRUE, compared |-> out.compared,
                   date |-> got.date, by_agent |-> by_agent,
                   prev_date |-> out.prev_date, changes |-> out.changes,
                   no_change_agents |-> out.no_change_agents, shown |-> out.shown,
                   save |-> out.save]
    /\ UNCHANGED <<page, pc, date, week_info, daily, team_daily, channel_team_map, weekly,
                   weekly_team, kpi_args, scores, agent_scores, manual_scores, totals,
                   teamVars, wowVars, store, pass_df, kpiPageVars, no_change_alert>>

NextReporter == SendRealtimeReport

SpecReporter == InitReporter /\ [][NextReporter]_vars

-----------------------------------------------------------------------------
(* Properties.                                                             *)

\* The index of the Tuesday-through-Monday span a day lies in (day 1 is a Tuesday).
TueMonSpan(d) == (d - 1) \div 7

\* The Tuesday that opens the span of d.
SpanTuesday(d) == 7 * TueMonSpan(d) + 1

Bucketed == page = "bucket" /\ pc = "done"

\* C1: two dates of one Tuesday-through-Monday span get the same weekly key, and
\* the key is the ISO (year, week) of the span's Tuesday: a Tuesday maps to
\* itself, a Monday to the Tuesday six days before it.
C1_BucketDeterminism ==
    Bucketed =>
        /\ week_info = IsoCalendar(SpanTuesday(date))
        /\ Weekday(date) = 1 => week_info = IsoCalendar(date)
        /\ Weekday(date) = 0 => week_info = IsoCalendar(date - 6)
        /\ \A d2 \in (date - 6)..(date + 6) :
               TueMonSpan(d2) = TueMonSpan(date) => get_tue_mon_week(d2) = week_info

\* A Monday whose key is not its own ISO week: Mon 2025-12-29 (ISO 2026-W01)
\* falls in the week of Tue 2025-12-23 (2025-W52).
C1_Witness ==
    /\ Bucketed /\ Weekday(date) = 0
    /\ week_info # IsoCalendar(date)
    /\ week_info[1] # IsoCalendar(date)[1]

\* The sum of column col over the rows of df whose index is in S.
RECURSIVE IdxSum(_, _, _)
IdxSum(df, S, col) ==
    IF S = {} THEN 0
    ELSE LET i == CHOOSE x \in S : TRUE
         IN  df[i][col] + IdxSum(df, S \ {i}, col)

AgentBuilt == page = "weekly_kpi" /\ pc = "done" /\ weekly.error = ""

TeamBuilt == page = "weekly_team_kpi" /\ pc = "done" /\ weekly_team.error = ""

KpiDone == page = "kpi_monitoring" /\ pc = "done"

\* The summed columns of every (agent, week) row.
AgentSums(w) ==
    [i \in 1..Len(w.rows) |->
        LET r == w.rows[i]
        IN  <<r.agent, r.week_key, r.cost, r.register, r.ftd, r.impressions, r.clicks>>]

\* The summed columns of every (team, week) row.
TeamSums(w) ==
    [i \in 1..Len(w.rows) |->
        LET r == w.rows[i]
        IN  <<r.team, r.week_key, r.cost, r.registrations, r.first_recharge,
              r.total_amount>>]

\* The aggregate of a frame under some outcome of the sort and of the rounding.
SomeWeekly(df) ==
    build_weekly_agent_df(df, CHOOSE o \in DateSortedOrders(DropNaT(df)) : TRUE, TRUE)

\* C2: every permutation of the daily rows gives, for every (agent, week) and
\* every (team, week) bucket, the same sums of cost, register / registrations,
\* ftd / first_recharge, impressions, clicks and total_amount.
C2_SumsOrderIndependent ==
    /\ AgentBuilt =>
           \A p \in Permutations(1..Len(daily)) :
               AgentSums(SomeWeekly(Reorder(daily, p))) = AgentSums(weekly)
    /\ TeamBuilt =>
           \A p \in Permutations(1..Len(team_daily)) :
               TeamSums(build_weekly_team_df(Reorder(team_daily, p), channel_team_map))
                   = TeamSums(weekly_team)

\* Three rows of one agent and week with different costs, summed to one row.
C2_Witness ==
    /\ AgentBuilt /\ Len(daily) = 3 /\ Len(weekly.rows) = 1
    /\ daily[1].cost # daily[2].cost /\ daily[2].cost # daily[3].cost
    /\ daily[1].cost # daily[3].cost
    /\ weekly.rows[1].cost = 1500 /\ weekly.rows[1].ftd = 2

\* C3: whatever the order of the input rows (rows not sorted by date, several
\* rows of one date), build_weekly_agent_df returns the same arppu and roas and
\* calculate_kpi_from_daily the same roas.
C3_ArppuOrderIndependent ==
    /\ AgentBuilt =>
           \A p \in Permutations(1..Len(daily)) :
               \A o \in DateSortedOrders(DropNaT(Reorder(daily, p))) :
                   LET w == build_weekly_agent_df(Reorder(daily, p), o, TRUE)
                   IN  \A i \in 1..Len(weekly.rows) :
                           /\ w.rows[i].arppu = weekly.rows[i].arppu
                           /\ w.rows[i].roas = weekly.rows[i].roas
    /\ KpiDone =>
           \A p \in Permutations(1..Len(daily)) : \E h \in BOOLEAN :
               calculate_kpi_from_daily(Reorder(daily, p), kpi_args, h).roas
                   = scores.roas

\* The indices of the rows of df in the (agent, week) bucket of weekly row r.
BucketOf(df, r) ==
    {i \in 1..Len(df) : /\ df[i].date # NaT
                         /\ df[i].agent = r.agent
                         /\ TueMonSpan(df[i].date) = TueMonSpan(r.date_start)}

\* C4: the ARPPU of an (agent, week) aggregate is the arppu of a latest-dated
\* row of the bucket among those with arppu > 0, and 0 when there is none.
C4_ArppuLastNonZero ==
    AgentBuilt =>
        \A k \in 1..Len(weekly.rows) :
            LET r  == weekly.rows[k]
                nz == {i \in BucketOf(daily, r) : daily[i].arppu > 0}
            IN  IF nz = {} THEN r.arppu = 0
                ELSE \E i \in nz : /\ \A j \in nz : daily[j].date <= daily[i].date
                                   /\ r.arppu = daily[i].arppu

\* A bucket of ARPPU 50 (Tue), 60 (Wed), 0 (Thu), in any input order: the
\* aggregate is 60, not 0 (the last row) and not 110 (the sum).
C4_Witness ==
    /\ AgentBuilt /\ Len(daily) = 3 /\ Len(weekly.rows) = 1
    /\ \E i, j, k \in 1..3 :
           /\ daily[i].date = 729 /\ daily[i].arppu = 5000
           /\ daily[j].date = 730 /\ daily[j].arppu = 6000
           /\ daily[k].date = 731 /\ daily[k].arppu = 0
           /\ daily[3].arppu # 6000
    /\ weekly.rows[1].arppu = 6000

\* C5: a derived metric whose denominator is 0 is exactly 0, and no division
\* fails: cpa and roas when ftd = 0, roas when cost = 0, cvr when register = 0,
\* ctr when impressions = 0; for teams cpr when registrations = 0, cpfd and
\* arppu when first_recharge = 0.
C5_ZeroDivision ==
    /\ AgentBuilt =>
           \A k \in 1..Len(weekly.rows) :
               LET r == weekly.rows[k]
               IN  /\ DivError \notin {r.cpa, r.roas, r.cvr, r.ctr}
                   /\ r.ftd = 0 => r.cpa = Zero /\ r.roas = Zero
                   /\ r.cost = 0 => r.roas = Zero
                   /\ r.register = 0 => r.cvr = Zero
                   /\ r.impressions = 0 => r.ctr = Zero
    /\ TeamBuilt =>
           \A k \in 1..Len(weekly_team.rows) :
               LET r == weekly_team.rows[k]
               IN  /\ DivError \notin {r.cpr, r.cpfd, r.arppu, r.roas}
                   /\ r.registrations = 0 => r.cpr = Zero
                   /\ r.first_recharge = 0 => r.cpfd = Zero /\ r.arppu = Zero

\* An agent week with money spent and no FTD, beside a week with FTDs.
C5_Witness ==
    /\ AgentBuilt /\ Len(weekly.rows) = 2
    /\ weekly.rows[1].ftd = 0 /\ weekly.rows[1].cost > 0 /\ weekly.rows[1].cpa = Zero
    /\ weekly.rows[2].ftd > 0 /\ weekly.rows[2].register = 0
    /\ weekly.rows[2].cvr = Zero

\* C6: the CPA of a bucket is (sum of cost) / (sum of ftd) over its rows: in the
\* weekly agent frame exactly, in calculate_kpi_from_daily as the value stored
\* (the ratio rounded to cents).
C6_CpaRatioOfSums ==
    /\ AgentBuilt =>
           \A k \in 1..Len(weekly.rows) :
               LET r == weekly.rows[k]
                   b == BucketOf(daily, r)
               IN  /\ r.cost = IdxSum(daily, b, "cost")
                   /\ r.ftd = IdxSum(daily, b, "ftd")
                   /\ r.ftd > 0 => r.cpa = Rat(IdxSum(daily, b, "cost"),
                                               100 * IdxSum(daily, b, "ftd"))
    /\ KpiDone =>
           LET b == {i \in 1..Len(daily) :
                        /\ daily[i].agent = kpi_args.agent_name
                        /\ daily[i].date \in kpi_args.date_from..kpi_args.date_to}
               c == IdxSum(daily, b, "cost")
               f == IdxSum(daily, b, "ftd")
           IN  f > 0 =>
                   scores.cpa.value \in {Round(Rat(c, 100 * f), 100, h) : h \in BOOLEAN}

\* Rows (Tue, cost 10, ftd 1) and (Wed, cost 5, ftd 0): cost 15, ftd 1, CPA 15.00.
C6_Witness ==
    /\ AgentBuilt /\ Len(daily) = 2 /\ Len(weekly.rows) = 1
    /\ daily[1].date = 729 /\ daily[1].cost = 1000 /\ daily[1].ftd = 1
    /\ daily[2].date = 730 /\ daily[2].cost = 500 /\ daily[2].ftd = 0
    /\ weekly.rows[1].cost = 1500 /\ weekly.rows[1].ftd = 1
    /\ weekly.rows[1].cpa = RatInt(15)

\* The rows of agent X inside the selected range.
Selected ==
    {i \in 1..Len(daily) : /\ daily[i].agent = kpi_args.agent_name
                           /\ daily[i].date \in kpi_args.date_from..kpi_args.date_to}

\* The raw CPA of a frame's selected rows, before any rounding.
RawCpa(df, S) == Rat(IdxSum(df, S, "cost"), 100 * IdxSum(df, S, "ftd"))

\* The CPA score the tier table gives to a value.
CpaTier(v) ==
    IF RatLeq(v, Rat(999, 100)) THEN {4}
    ELSE IF RatGeq(v, RatInt(10)) /\ RatLeq(v, Rat(1399, 100)) THEN {3}
    ELSE IF RatGeq(v, RatInt(14)) /\ RatLeq(v, RatInt(15)) THEN {2}
    ELSE IF RatGt(v, RatInt(15)) THEN {1}
    ELSE 0..4

\* C7, as written: a CPA value <= 9.99 scores 4, 10.00 to 13.99 scores 3,
\* 14.00 to 15.00 scores 2, above 15.00 scores 1 -- for every CPA value the
\* calculation stores, the 0 of an agent without FTD or without rows included.
C7_CpaTiersAnyValue ==
    KpiDone => scores.cpa.score \in CpaTier(scores.cpa.value)

\* C7: a CPA above 0 and <= 9.99 scores 4, 10.00 to 13.99 scores 3, 14.00 to
\* 15.00 scores 2, above 15.00 scores 1; a CPA of 0 scores 0.
C7_CpaTiers ==
    KpiDone =>
        IF IdxSum(daily, Selected, "ftd") > 0 /\ IdxSum(daily, Selected, "cost") > 0
        THEN scores.cpa.score \in CpaTier(RawCpa(daily, Selected))
        ELSE scores.cpa.score = 0 /\ scores.cpa.value = Zero

\* A CPA of 9.99 scored 4, where 10.00 scores 3.
C7_Witness ==
    /\ KpiDone /\ Len(daily) = 1 /\ daily[1].cost = 999 /\ daily[1].ftd = 1
    /\ scores.cpa.value = Rat(999, 100) /\ scores.cpa.score = 4
    /\ calculate_kpi_from_daily(<<AgentRow("X", 729, 1000, 0, 1, 0, 0, 0)>>,
                                kpi_args, TRUE).cpa.score = 3

\* The score of d2's metric is no better than the score of this state's metric.
NoBetter(key, d2) ==
    calculate_kpi_from_daily(d2, kpi_args, TRUE)[key].score <= scores[key].score

\* C8, as written: of two raw values, 0 included, the lower CPA never scores
\* lower, and the higher ROAS, CVR or CTR never scores lower.
C8_MonotoneFromZero ==
    KpiDone /\ kpi_args = WeekArgs =>
        /\ \A d2 \in CpaFrames :
               daily \in CpaFrames /\ daily[1].cost <= d2[1].cost => NoBetter("cpa", d2)
        /\ \A d2 \in RoasFrames :
               daily \in RoasFrames /\ daily[1].arppu >= d2[1].arppu
                   => NoBetter("roas", d2)
        /\ \A d2 \in CvrFrames :
               daily \in CvrFrames /\ daily[1].ftd >= d2[1].ftd => NoBetter("cvr", d2)
        /\ \A d2 \in CtrFrames :
               daily \in CtrFrames /\ daily[1].clicks >= d2[1].clicks
                   => NoBetter("ctr", d2)

\* C8: of two CPA values above 0 the lower never scores lower; of two ROAS, CVR
\* or CTR values, 0 included, the higher never scores lower.
C8_Monotone ==
    KpiDone /\ kpi_args = WeekArgs =>
        /\ \A d2 \in CpaFrames :
               /\ daily \in CpaFrames
               /\ 0 < daily[1].cost /\ daily[1].cost <= d2[1].cost
               => NoBetter("cpa", d2)
        /\ \A d2 \in RoasFrames :
               daily \in RoasFrames /\ daily[1].arppu >= d2[1].arppu
                   => NoBetter("roas", d2)
        /\ \A d2 \in CvrFrames :
               daily \in CvrFrames /\ daily[1].ftd >= d2[1].ftd => NoBetter("cvr", d2)
        /\ \A d2 \in CtrFrames :
               daily \in CtrFrames /\ daily[1].clicks >= d2[1].clicks
                   => NoBetter("ctr", d2)

\* A CVR of 7.00 percent scored 4, above the 6.99 percent that scores lower.
C8_Witness ==
    /\ KpiDone /\ daily \in CvrFrames /\ daily[1].ftd = 700
    /\ scores.cvr.value = RatInt(7) /\ scores.cvr.score = 4
    /\ calculate_kpi_from_daily(<<AgentRow("X", 729, 0, 10000, 699, 0, 0, 0)>>,
                                kpi_args, TRUE).cvr.score < 4

Rendered == page = "kpi_total" /\ pc = "done"

\* C10: the grand total of an agent whose every auto and manual score is in 0..4
\* lies between 0 and 4.00, as do its parts between 0 and their weights' share.
C10_GrandTotalRange ==
    Rendered =>
        /\ RatGeq(totals.grand, Zero) /\ RatLeq(totals.grand, RatInt(4))
        /\ RatGeq(totals.auto, Zero) /\ RatGeq(totals.manual, Zero)

\* Every score 4: the total is 4.00.
C10_Witness ==
    /\ Rendered /\ agent_scores = AllFour(AutoKeys) /\ manual_scores = AllFour(ManualKeys)
    /\ totals.grand = RatInt(4)


\* The weighted sum of a full auto assignment, in thousandths, by the table
\* CPA 12.5%, ROAS 12.5%, CVR 15%, CTR 7.5%, Account-Dev 10%, A/B 7.5%, Reporting 10%.
AutoSum(a) ==
    125 * a.cpa + 125 * a.roas + 150 * a.cvr + 75 * a.ctr
        + 100 * a.account_dev + 75 * a.ab_testing + 100 * a.reporting

\* The weighted sum of a full manual assignment, in thousandths: Campaign Setup
\* 15%, Collaboration 10%.
ManualSum(m) == 150 * m.campaign_setup + 100 * m.collaboration

\* C11: auto_total is the sum of score x weight over the 7 auto KPIs (to the
\* cent), the weights sum to 0.75 and auto_total <= 3.00; manual_total is the
\* sum over the manual KPIs, whose weights sum to 0.25, and manual_total <= 1.00.
C11_WeightedSums ==
    Rendered =>
        /\ AutoLoop(AllFour(AutoKeys), AutoKeys) = RatInt(3)
        /\ ManualLoop(AllFour(ManualKeys), ManualKeys) = RatInt(1)
        /\ DOMAIN agent_scores # {} =>
               totals.auto \in {Round(Rat(AutoSum(agent_scores), 1000), 100, h) :
                                   h \in BOOLEAN}
        /\ DOMAIN manual_scores # {} =>
               totals.manual \in {Round(Rat(ManualSum(manual_scores), 1000), 100, h) :
                                     h \in BOOLEAN}
        /\ RatLeq(totals.auto, RatInt(3)) /\ RatLeq(totals.manual, RatInt(1))

\* CPA 3, ROAS 3, CVR 4, CTR 4, Acct 4, AB 4, Report 4: auto_total 2.75.
C11_Witness ==
    /\ Rendered
    /\ agent_scores = [cpa |-> 3, roas |-> 3, cvr |-> 4, ctr |-> 4, account_dev |-> 4,
                       ab_testing |-> 4, reporting |-> 4]
    /\ totals.auto = Rat(275, 100)
    /\ totals.manual = RatInt(1)


\* The rows of a channel frame whose channel the table maps to team t.
MappedTo(df, map, t) ==
    {i \in 1..Len(df) : df[i].channel \in DOMAIN map /\ map[df[i].channel] = t}

TeamAggregated == page = "team_channel_by_team" /\ pc = "done"

\* C12: every team total, under whatever team label, is made of the rows whose
\* channel the mapping gives to that team and of no row of an unmapped
\* channel: in the weekly team frame and in the per-team totals of the
\* overall section alike.
C12_UnmappedExcluded ==
    /\ TeamBuilt =>
           \A k \in 1..Len(weekly_team.rows) :
               LET r == weekly_team.rows[k]
                   S == {i \in MappedTo(team_daily, channel_team_map, r.team) :
                            TueMonSpan(team_daily[i].date) = TueMonSpan(r.date_start)}
               IN  /\ r.cost = IdxSum(team_daily, S, "cost")
                   /\ r.registrations = IdxSum(team_daily, S, "registrations")
                   /\ r.first_recharge = IdxSum(team_daily, S, "first_recharge")
                   /\ r.total_amount = IdxSum(team_daily, S, "total_amount")
    /\ TeamAggregated =>
           \A k \in 1..Len(team_agg) :
               LET r == team_agg[k]
                   S == MappedTo(overall_df, CHANNEL_TO_TEAM, r.promo_team)
               IN  /\ r.cost = IdxSum(overall_df, S, "cost")
                   /\ r.registrations = IdxSum(overall_df, S, "registrations")
                   /\ r.first_recharge = IdxSum(overall_df, S, "first_recharge")
                   /\ r.total_amount = IdxSum(overall_df, S, "total_amount")


\* C13: for daily rows without a team column and any mapping, the empty one
\* included, build_weekly_team_df returns a frame (an empty one when nothing
\* maps) and raises nothing.
C13_TeamNeverRaises ==
    page = "weekly_team_kpi" /\ pc = "done" => weekly_team.error = ""


MappingBuilt == page = "team_mapping" /\ pc = "done"

\* C14: the mapping built from channel sources holds only codes with a
\* two-digit suffix (FB-FB-FB-DEERPROMO and two characters), whatever the
\* source; and "Promo - 07 - 12 - 13" of Team A yields exactly the codes
\* ending DEERPROMO07, DEERPROMO12 and DEERPROMO13, mapped to Team A.
C14_TwoDigitCodes ==
    MappingBuilt =>
        /\ \A c \in DOMAIN channel_team_map : Len(c) = Len("FB-FB-FB-DEERPROMO") + 2
        /\ team_actual = <<ActualRow("Team A", <<"P", "r", "o", "m", "o", " ", "-", " ", "0", "7", " ", "-", " ", "1", "2", " ", "-", " ", "1", "3">>)>> =>
               channel_team_map =
                   [c \in {"FB-FB-FB-DEERPROMO07", "FB-FB-FB-DEERPROMO12",
                           "FB-FB-FB-DEERPROMO13"} |-> "Team A"]


DeltaDone == page = "arrow_delta" /\ pc = "done"

\* The claim's direction of a rendered cell.
Direction(cell) ==
    IF cell.text = "none" THEN "none"
    ELSE IF cell.text = "new" THEN "new"
    ELSE IF cell.color = "grey" THEN "flat"
    ELSE IF cell.color = "green" THEN "favorable"
    ELSE "unfavorable"

\* C16: with a previous value other than 0 the percent is
\* (current - previous) / |previous| * 100, and whenever |percent| < 0.1 the
\* cell is flat, whatever the sign of the change and higher_is_better.
C16_PercentAndFlat ==
    DeltaDone /\ delta_args.prev # Zero =>
        LET c == delta_args.curr
            p == delta_args.prev
            \* (c - p) / |p| as a fraction of integers, then times 100
            r   == Rat(c.n * p.d - p.n * c.d, c.d * Abs(p.n))
            pct == Rat(100 * r.n, r.d)
        IN  /\ delta.pct = pct
            /\ (10 * Abs(pct.n) < pct.d) <=> (Direction(delta) = "flat")
            /\ Direction(delta) # "new"

\* 1000.00 -> 1000.99: +0.099 percent, flat, for a lower-is-better metric.
C16_Witness ==
    /\ DeltaDone /\ delta_args.prev = RatInt(1000) /\ delta_args.curr = Rat(100099, 100)
    /\ ~delta_args.higher_is_better
    /\ delta.pct = Rat(99, 1000) /\ Direction(delta) = "flat"


\* C17: when |percent| >= 0.1 the cell is favorable exactly when
\* (percent > 0) = higher_is_better and unfavorable otherwise; CPA, cost, CPR
\* and CPFD are compared with higher_is_better = FALSE and every other metric
\* with TRUE; ROAS 0.20 -> 0.25 is +25% favorable, CPA 10.00 -> 12.00 is +20%
\* unfavorable.
C17_Direction ==
    DeltaDone =>
        LET c   == delta_args.curr
            p   == delta_args.prev
            up  == c.n * p.d > p.n * c.d
            far == 1000 * Abs(c.n * p.d - p.n * c.d) >= c.d * Abs(p.n)
        IN  /\ delta_args.higher_is_better
                   = (delta_args.metric \notin {"cpa", "cost", "cpr", "cpfd"})
            /\ p # Zero /\ far =>
                   /\ Direction(delta) \in {"favorable", "unfavorable"}
                   /\ (Direction(delta) = "favorable")
                          <=> (up = delta_args.higher_is_better)
                   /\ delta.arrow = IF up THEN "up" ELSE "down"
            /\ delta_args.metric = "roas" /\ p = Rat(20, 100) /\ c = Rat(25, 100) =>
                   delta.pct = RatInt(25) /\ Direction(delta) = "favorable"
            /\ delta_args.metric = "cpa" /\ p = RatInt(10) /\ c = RatInt(12) =>
                   delta.pct = RatInt(20) /\ Direction(delta) = "unfavorable"

\* CPA 10.00 -> 12.00: +20.0 percent, shown red with an up arrow.
C17_Witness ==
    /\ DeltaDone /\ delta_args.metric = "cpa"
    /\ delta_args.prev = RatInt(10) /\ delta_args.curr = RatInt(12)
    /\ delta.pct = RatInt(20) /\ delta.shown = RatInt(20)
    /\ delta.color = "red" /\ delta.arrow = "up"


\* A pass of pages/28 that got as far as the cards and the history table.
Rendered28 == page = "weekly_kpi" /\ pc = "rendered" /\ wow.status = "rendered"

WowMetricKeys == {"cpa", "roas", "cvr", "ctr"}

\* What the claim asks of a delta without usable baseline.
NewOrFlat(cell, curr) ==
    Direction(cell) = IF RatGt(curr, Zero) THEN "new" ELSE "flat"

\* C15: when the previous aggregate is absent or its metric value is 0, the
\* delta shown is "new" if the current value is positive and "flat" if it is
\* zero too (and nothing is divided).
C15_NoBaseline ==
    Rendered28 =>
        LET agent_weeks == SelectSeq(weekly.rows,
                                     LAMBDA r : r.agent = selection.selected)
        IN  /\ \A i \in 1..Len(wow.history), m \in WowMetricKeys :
                   (i = 1 \/ agent_weeks[i - 1][m] = Zero) =>
                       NewOrFlat(wow.history[i][m], agent_weeks[i][m])
            /\ \A m \in WowMetricKeys :
                   (wow.prev_row = <<>> \/ wow.prev_row[1][m] = Zero) =>
                       NewOrFlat(wow.cards[m], wow.curr[1][m])

\* The key of the Tue-Mon week before the one a date lies in.
PrecedingWeek(d) == WeekKey(get_tue_mon_week(d - 7))

\* C18: the aggregate a week is compared with is the same entity's aggregate
\* of the calendar week immediately before; never a week further back.
C18_AdjacentBaseline ==
    Rendered28 =>
        /\ \A i \in 1..Len(wow.history) :
               (\E m \in WowMetricKeys : wow.history[i][m] # NoDelta) =>
                   wow.history[i].prev_r = PrecedingWeek(wow.history[i].week_label[1])
        /\ (\E m \in DOMAIN wow.cards : wow.cards[m] # NoDelta) =>
               /\ wow.prev_row[1].agent = selection.selected
               /\ wow.prev_row[1].week_key = PrecedingWeek(wow.curr[1].date_start)

\* The distinct dates on which an entity has a row in a week.
DatesOf(df, agent, wk) ==
    {df[i].date : i \in {j \in 1..Len(df) : df[j].agent = agent /\ RowWeekKey(df[j]) = wk}}

\* C19: the day count of every (entity, week) aggregate is the number of
\* distinct dates with a row in it, and the week is flagged partial exactly
\* when that number is below 7.
C19_DaysCovered ==
    Rendered28 =>
        /\ \A i \in 1..Len(weekly.rows) :
               weekly.rows[i].days
                   = Cardinality(DatesOf(daily, weekly.rows[i].agent,
                                         weekly.rows[i].week_key))
        /\ \A i \in 1..Len(wow.history) :
               wow.history[i].incomplete
                   <=> Cardinality(DatesOf(daily, selection.selected,
                                           wow.history[i].week_key)) < 7


\* The numeric columns a frame lacks.
Missing(df, cols) == IF df = <<>> THEN {} ELSE cols \ DOMAIN df[1]

\* C20: when the input rows lack one of the numeric columns, the aggregators
\* complete without error and the corresponding sum is 0.
C20_MissingColumnsZero ==
    pc = "done" =>
        /\ page = "weekly_kpi" =>
               /\ weekly.error = ""
               /\ \A i \in 1..Len(weekly.rows), c \in Missing(daily, AgentNumericColumns) :
                      weekly.rows[i][c] = 0
        /\ page = "weekly_team_kpi" /\ channel_team_map # EmptyMap =>
               /\ weekly_team.error = ""
               /\ \A i \in 1..Len(weekly_team.rows),
                     c \in Missing(team_daily, TeamNumericColumns) :
                      weekly_team.rows[i][c] = 0
        /\ page = "kpi_monitoring" => "error" \notin DOMAIN scores


\* C21: a row whose date cannot be parsed is dropped without raising, and the
\* other rows are aggregated as if it were absent: each aggregator gives on
\* the frame what it gives on the frame without the rows of unparseable date.
C21_BadDateDropped ==
    pc = "done" =>
        /\ page = "weekly_kpi" =>
               \E order \in DateSortedOrders(DropNaT(daily)), half_up \in BOOLEAN :
                   weekly = build_weekly_agent_df(DropNaT(daily), order, half_up)
        /\ page = "weekly_team_kpi" /\ channel_team_map # EmptyMap =>
               weekly_team = build_weekly_team_df(DropNaT(team_daily), channel_team_map)
        /\ page = "kpi_monitoring" =>
               \E half_up \in BOOLEAN :
                   scores = calculate_kpi_from_daily(DropNaT(daily), kpi_args, half_up)


\* C22: each of the seven auto KPI entries calculate_kpi_from_daily returns
\* has its score in {0, 1, 2, 3, 4}, whatever the daily rows, the counts and
\* the fetched reporting data are.
C22_ScoresInRange ==
    KpiDone => \A i \in 1..Len(AutoKeys) : scores[AutoKeys[i]].score \in 0..4

\* The tier of a reporting latency in minutes, as the claim states it.
LatencyTier(minutes) ==
    IF minutes < 15 THEN 4 ELSE IF minutes < 25 THEN 3 ELSE IF minutes < 35 THEN 2 ELSE 1

\* C23: the integer-valued auto KPIs are scored by their tier tables:
\* accounts >= 5 -> 4, 3-4 -> 3, 2 -> 2, < 2 -> 1; published ads >= 20 -> 4,
\* 11-19 -> 3, 6-10 -> 2, < 6 -> 1; reporting latency < 15 -> 4, 15-24 -> 3,
\* 25-34 -> 2, >= 35 -> 1.
C23_IntegerTiers ==
    KpiDone =>
        LET n == kpi_args.acct_total
            p == kpi_args.ab_published
        IN  /\ scores.account_dev.score
                   = (IF n >= 5 THEN 4 ELSE IF n \in {3, 4} THEN 3
                      ELSE IF n = 2 THEN 2 ELSE 1)
            /\ scores.ab_testing.score
                   = (IF p >= 20 THEN 4 ELSE IF p \in 11..19 THEN 3
                      ELSE IF p \in 6..10 THEN 2 ELSE 1)
            /\ kpi_args.reporting.present =>
                   scores.reporting.score = LatencyTier(kpi_args.reporting.avg_minute)


\* C24: within one team aggregation pass every row is resolved against the
\* same mapping, the one built from the data the pass loaded before it
\* started, whatever refreshes rebuild the cached data meanwhile; the pass
\* gives what build_weekly_team_df gives on the loaded frame and that mapping.
C24_MappingSnapshot ==
    page = "weekly_team_kpi" /\ pc \in {"mapping", "mapped", "done"} =>
        /\ channel_team_map = BuildChannelTeamMap(EmptyMap, team_actual)
        /\ \A i \in 1..Len(pass_df) :
               pass_df[i].seen # -1 =>
                   pass_df[i].row.team
                       = (IF pass_df[i].row.channel \in DOMAIN channel_team_map
                          THEN channel_team_map[pass_df[i].row.channel] ELSE NaN)
        /\ pc = "done" =>
               weekly_team = build_weekly_team_df(team_daily, channel_team_map)

\* A finished pass whose rows were resolved on either side of a refresh that
\* moved the channel of the later row to another team.
C24_Witness ==
    /\ page = "weekly_team_kpi" /\ pc = "done"
    /\ Len(pass_df) >= 2
    /\ pass_df[1].seen < pass_df[2].seen
    /\ LET now == BuildChannelTeamMap(EmptyMap, store.team_actual)
           c   == pass_df[2].row.channel
       IN  /\ c \in DOMAIN now /\ c \in DOMAIN channel_team_map
           /\ now[c] # channel_team_map[c]
           /\ pass_df[2].row.team = channel_team_map[c]


\* C25: week keys sort chronologically: when the Tuesday that opens the week
\* of d1 lies before the one of d2, the key "YYYY-Www" of d1 is strictly
\* below that of d2 in string order, also across ISO year boundaries; so
\* distinct Tue-Mon spans never share a key.
C25_KeysChronological ==
    Bucketed =>
        \A d2 \in WeekDates :
            LET k1 == WeekKey(week_info)
                k2 == WeekKey(get_tue_mon_week(d2))
            IN  /\ SpanTuesday(date) < SpanTuesday(d2) => StrLess(k1, k2)
                /\ SpanTuesday(date) > SpanTuesday(d2) => StrLess(k2, k1)
                /\ SpanTuesday(date) # SpanTuesday(d2) => k1 # k2

\* Tue 2024-12-31 opens 2025-W01; the week before it is 2024-W52 and sorts
\* below it.
C25_Witness ==
    /\ Bucketed /\ date = 365
    /\ week_info = <<2025, 1>>
    /\ get_tue_mon_week(date - 7) = <<2024, 52>>
    /\ StrLess(WeekKey(get_tue_mon_week(date - 7)), WeekKey(week_info))


TeamColumns == {"cost", "registrations", "first_recharge", "total_amount"}

\* The output rows sum, column by column, to the input rows of index in S,
\* and each of those input rows lies in exactly one (team, week) output row.
Conserved(S) ==
    /\ \A col \in TeamColumns :
           ColSum(weekly_team.rows, col) = IdxSum(team_daily, S, col)
    /\ \A i \in S :
           Cardinality({j \in 1..Len(weekly_team.rows) :
               /\ weekly_team.rows[j].team = channel_team_map[team_daily[i].channel]
               /\ weekly_team.rows[j].week_key = RowWeekKey(team_daily[i])}) = 1

\* The input rows with a parseable date and a mapped channel.
MappedRows ==
    {i \in 1..Len(team_daily) :
        team_daily[i].date # NaT /\ team_daily[i].channel \in DOMAIN channel_team_map}

\* C26 as stated: every input row with a parseable date and a mapped channel
\* is counted in exactly one (team, week) aggregate, and the output sums of
\* cost, registrations, first_recharge and total_amount equal the sums over
\* exactly those rows.
C26_Conservation == TeamBuilt => Conserved(MappedRows)

\* C26 as the code has it: the same, over the rows whose channel is mapped to
\* a team other than 'All'.
C26_ConservationRealTeams ==
    TeamBuilt =>
        Conserved({i \in MappedRows : channel_team_map[team_daily[i].channel] # "All"})

\* Rows of a channel under Team A and of a channel under 'All', and a row
\* whose date did not parse; only Team A is in the output.
C26_Witness ==
    /\ TeamBuilt /\ Len(weekly_team.rows) = 1
    /\ weekly_team.rows[1].team = "Team A" /\ weekly_team.rows[1].cost > 0
    /\ \E i \in MappedRows : channel_team_map[team_daily[i].channel] = "All"
                              /\ team_daily[i].cost > 0
    /\ \E i \in 1..Len(team_daily) : team_daily[i].date = NaT


\* C27: in every render pass of the KPI page the Manual and Total figures of
\* an agent are computed from the manual scores selected in that same pass,
\* in the All Agents view as in the individual view.
C27_TotalsOfThisPass ==
    page = "kpi_monitoring" /\ pc = "shown" =>
        \E h \in BOOLEAN \X BOOLEAN \X BOOLEAN :
            totals = Totals(agent_scores, widgets, h)


\* The run compared against a saved report whose date is not the date of the
\* latest data.
FreshDay ==
    /\ report_run.ran /\ report_run.compared
    /\ report_run.prev_date # <<>>
    /\ report_run.prev_date # StrDate(report_run.date)

\* C28: a run that finds a saved report of another date makes no comparison:
\* changes is None, no agent is listed as "no change" and no line of the
\* summary carries a difference, whatever the saved figures are.
C28_FreshDay ==
    (page = "realtime_reporter" /\ FreshDay)
        => /\ report_run.changes = NoChanges
           /\ report_run.no_change_agents = {}
           /\ report_run.shown = {}

\* A fresh-day run on data whose figures differ from nothing saved for them:
\* the saved report named an agent the new day also has.
C28_Witness ==
    /\ page = "realtime_reporter" /\ FreshDay
    /\ report_run.by_agent # <<>>
    /\ report_run.changes = NoChanges
    /\ report_run.result

\* The step is a run that follows a run that returned True, and loads the
\* same latest date and the same per-agent figures.
RepeatedRun ==
    /\ page = "realtime_reporter"
    /\ report_run.ran /\ report_run.result
    /\ report_run'.compared
    /\ report_run'.date = report_run.date
    /\ report_run'.by_agent = report_run.by_agent

NoChangeForAll ==
    /\ ~report_run'.changes.none
    /\ \A a \in DOMAIN report_run'.by_agent :
         /\ a \in DOMAIN report_run'.changes.by
         /\ ~report_run'.changes.by[a].has_change
         /\ no_change_alert => a \in report_run'.no_change_agents

\* C29: the run after a successful run on the same date and figures computes
\* has_change = false for every agent and, with the alert switched on, lists
\* every agent as "no change".
C29_RepeatedRun == [][RepeatedRun => NoChangeForAll]_vars

\* C30: a run that returns False leaves the saved last-report data as it was.
C30_FailedRunKeepsFile ==
    [][(page = "realtime_reporter" /\ ~report_run'.result) => last_report' = last_report]_vars

\* A failed run that had made its comparison against a saved report.
C30_Witness ==
    /\ page = "realtime_reporter"
    /\ report_run.ran /\ ~report_run.result /\ report_run.compared
    /\ last_report.kind = "json"
    /\ ~report_run.changes.none
    /\ \E a \in DOMAIN report_run.changes.by : report_run.changes.by[a].has_change

=============================================================================
